---------------------------- MODULE Spec2Model ----------------------------
(***************************************************************************)
(* A model of gos3rve: an S3-compatible gateway over a local directory.    *)
(*                                                                         *)
(* Strings whose characters the code inspects (the Authorization header,   *)
(* the query string, header values, URL paths) are sequences of tokens: a  *)
(* token is one separator character ("/", "=", ",", ";", "&", "+", " ") or *)
(* a run of characters the code never looks into.  Digests are injective   *)
(* symbolic terms rendered as strings.                                     *)
(***************************************************************************)
EXTENDS Integers, Sequences, FiniteSets, TLC

VARIABLES
    aCfg,       \* configuration of the verifier: keyId, secretKey, s3region
    aNow,       \* the server's current UTC day (time.Now().UTC())
    aReq,       \* the request handed to authenticate
    aSign,      \* how the client signed aReq: its kind and signing-key day
    aTamper,    \* what was changed in aReq since it was signed ("none" if nothing)
    aVerdict,   \* authenticate(aReq): "none" (not run yet), "ok", "denied"
    fs,         \* the filesystem: path -> [dir, data]
    req,        \* the request that arrived last, as the client describes it
    pending,    \* TRUE while req waits for handleRequest
    resp,       \* the response to req (status "none" while pending)
    opBdir,     \* the bucket directory the handler of req resolved
    opPath,     \* the path the handler of req handed to the object store
    load,       \* the kind of clients this server has: which requests arrive
    job,        \* per goroutine: the request it serves (concurrent handlers)
    step,       \* per goroutine: where its handler is
    pos,        \* per goroutine: the offset of its file, or the manifest entry
    reply,      \* per goroutine: the response it wrote
    fnArg,      \* the argument of a signing helper that is run on its own
    fnRes       \* what the helper returned for fnArg (done = FALSE before the call)

authVars == <<aCfg, aNow, aReq, aSign, aTamper, aVerdict>>

fsVars == <<fs, req, pending, resp, opBdir, opPath, load>>

concVars == <<job, step, pos, reply>>

fnVars == <<fnArg, fnRes>>

vars == <<authVars, fsVars, concVars, fnVars>>

-----------------------------------------------------------------------------
(* Token sequences *)

WhiteSpace == {" ", "\t"}

RECURSIVE Split(_, _)
Split(s, sep) ==
    IF \A i \in 1..Len(s) : s[i] # sep
    THEN <<s>>
    ELSE LET i == CHOOSE k \in 1..Len(s) :
                      s[k] = sep /\ \A j \in 1..(k - 1) : s[j] # sep
         IN  <<SubSeq(s, 1, i - 1)>> \o Split(SubSeq(s, i + 1, Len(s)), sep)

RECURSIVE TrimLeft(_)
TrimLeft(s) ==
    IF s # <<>> /\ Head(s) \in WhiteSpace THEN TrimLeft(Tail(s)) ELSE s

RECURSIVE TrimRight(_)
TrimRight(s) ==
    IF s # <<>> /\ s[Len(s)] \in WhiteSpace
    THEN TrimRight(SubSeq(s, 1, Len(s) - 1)) ELSE s

TrimSpace(s) == TrimRight(TrimLeft(s))

RemoveToken(s, t) == SelectSeq(s, LAMBDA x : x # t)

ReplaceToken(s, old, new) ==
    [i \in 1..Len(s) |-> IF s[i] = old THEN new ELSE s[i]]

RECURSIVE Join(_, _)
Join(pieces, sep) ==
    IF pieces = <<>> THEN <<>>
    ELSE IF Len(pieces) = 1 THEN pieces[1]
    ELSE pieces[1] \o <<sep>> \o Join(Tail(pieces), sep)

contains(list, elem) == \E i \in 1..Len(list) : list[i] = elem

-----------------------------------------------------------------------------
(* Digests are injective symbolic terms; hex.EncodeToString renders a term *)
(* as the string it is compared and transmitted as.                        *)

hex_EncodeToString(term) == ToString(term)

Sha256Hex(x) == hex_EncodeToString(<<"sha256", x>>)

sumHMAC(key, data) == <<"hmac", key, data>>

Md5Hex(x) == hex_EncodeToString(<<"md5", x>>)


-----------------------------------------------------------------------------
(* Constants of utils.go *)

signV4Algorithm == "AWS4-HMAC-SHA256"

emptySHA256 == Sha256Hex(<<>>)

unsignedPayload == "UNSIGNED-PAYLOAD"

\* time.Parse(yyyymmdd, s) succeeds exactly on a well-formed calendar day
Days == {"20240101", "20240102"}

\* time.Parse(iso8601Format, s): the instant t, rendered by t.Format(iso8601Format).
\* Go's parser accepts a fractional second after the seconds field even though
\* the layout has none; Format drops it.
IsoParse ==
    [x \in {"20240101T000000Z", "20240101T000000.5Z", "20240102T000000Z"} |->
        IF x = "20240101T000000.5Z" THEN "20240101T000000Z" ELSE x]

http_CanonicalHeaderKey(name) ==
    CASE name \in {"host", "Host"} -> "Host"
      [] name \in {"date", "Date"} -> "Date"
      [] name \in {"expect", "Expect"} -> "Expect"
      [] name \in {"authorization", "Authorization"} -> "Authorization"
      [] name \in {"x-amz-date", "X-Amz-Date"} -> "X-Amz-Date"
      [] name \in {"x-custom", "X-Custom"} -> "X-Custom"
      [] name \in {"content-length", "Content-Length"} -> "Content-Length"
      [] name \in {"transfer-encoding", "Transfer-Encoding"} -> "Transfer-Encoding"
      [] name \in {"x-amz-content-sha256", "X-Amz-Content-Sha256"} ->
             "X-Amz-Content-Sha256"
      [] OTHER -> name

strings_ToLower(name) ==
    CASE name = "Host" -> "host"
      [] name = "Date" -> "date"
      [] name = "Expect" -> "expect"
      [] name = "Authorization" -> "authorization"
      [] name = "X-Amz-Date" -> "x-amz-date"
      [] name = "X-Custom" -> "x-custom"
      [] name = "Content-Length" -> "content-length"
      [] name = "Transfer-Encoding" -> "transfer-encoding"
      [] name = "X-Amz-Content-Sha256" -> "x-amz-content-sha256"
      [] OTHER -> name

\* sort.Strings on the lowercased header names the model uses
HeaderOrder ==
    <<"authorization", "content-length", "date", "expect", "host",
      "transfer-encoding", "x-amz-content-sha256", "x-amz-date", "x-custom">>

\* http.Header: a map from canonical names to value lists
HeaderGet(h, name) ==
    LET k == http_CanonicalHeaderKey(name)
    IN  IF k \in DOMAIN h /\ h[k] # <<>> THEN h[k][1] ELSE <<>>

HeaderAdd(h, name, v) ==
    LET k == http_CanonicalHeaderKey(name)
    IN  IF k \in DOMAIN h THEN [h EXCEPT ![k] = Append(@, v)]
        ELSE h @@ (k :> <<v>>)

HeaderSet(h, name, v) ==
    LET k == http_CanonicalHeaderKey(name)
    IN  IF k \in DOMAIN h THEN [h EXCEPT ![k] = <<v>>]
        ELSE h @@ (k :> <<v>>)

-----------------------------------------------------------------------------
(* Parsing the Authorization header *)

NoCred ==
    [accessKey |-> <<>>, date |-> "", region |-> <<>>, service |-> <<>>,
     request |-> <<>>]

parseCredentialHeader(credElement) ==
    LET creds == Split(TrimSpace(credElement), "=")
    IN  IF Len(creds) # 2 THEN [err |-> "ErrMissingFields", ch |-> NoCred]
        ELSE IF creds[1] # <<"Credential">>
        THEN [err |-> "ErrMissingCredTag", ch |-> NoCred]
        ELSE LET credElements == Split(TrimSpace(creds[2]), "/")
             IN  IF Len(credElements) # 5
                 THEN [err |-> "ErrCredMalformed", ch |-> NoCred]
                 ELSE IF ~(Len(credElements[2]) = 1 /\ credElements[2][1] \in Days)
                 THEN [err |-> "ErrMalformedCredentialDate", ch |-> NoCred]
                 ELSE [err |-> "ErrNone",
                       ch  |-> [accessKey |-> credElements[1],
                                date      |-> credElements[2][1],
                                region    |-> credElements[3],
                                service   |-> credElements[4],
                                request   |-> credElements[5]]]

\* a header name is one token; an empty piece is the empty name
NameOf(piece) == IF piece = <<>> THEN "" ELSE piece[1]

parseSignedHeader(signedHdrElement) ==
    LET signedHdrFields == Split(TrimSpace(signedHdrElement), "=")
    IN  IF Len(signedHdrFields) # 2
        THEN [err |-> "ErrMissingFields", names |-> <<>>]
        ELSE IF signedHdrFields[1] # <<"SignedHeaders">>
        THEN [err |-> "ErrMissingSignHeadersTag", names |-> <<>>]
        ELSE IF signedHdrFields[2] = <<>>
        THEN [err |-> "ErrMissingFields", names |-> <<>>]
        ELSE LET pieces == Split(signedHdrFields[2], ";")
             IN  [err |-> "ErrNone",
                  names |-> [i \in 1..Len(pieces) |-> NameOf(pieces[i])]]

parseSignature(signElement) ==
    LET signFields == Split(TrimSpace(signElement), "=")
    IN  IF Len(signFields) # 2
        THEN [err |-> "ErrMissingFields", signature |-> <<>>]
        ELSE IF signFields[1] # <<"Signature">>
        THEN [err |-> "ErrMissingSignTag", signature |-> <<>>]
        ELSE IF signFields[2] = <<>>
        THEN [err |-> "ErrMissingFields", signature |-> <<>>]
        ELSE [err |-> "ErrNone", signature |-> signFields[2]]

NoSignValues == [Credential |-> NoCred, SignedHeaders |-> <<>>, Signature |-> <<>>]

parseSignV4(v4AuthRaw) ==
    LET v4Auth == RemoveToken(v4AuthRaw, " ")
    IN  IF v4Auth = <<>> THEN [err |-> "ErrAuthHeaderEmpty", sv |-> NoSignValues]
        ELSE IF Head(v4Auth) # signV4Algorithm
        THEN [err |-> "ErrSignatureVersionNotSupported", sv |-> NoSignValues]
        ELSE LET authFields == Split(TrimSpace(Tail(v4Auth)), ",")
             IN  IF Len(authFields) # 3
                 THEN [err |-> "ErrMissingFields", sv |-> NoSignValues]
                 ELSE LET c  == parseCredentialHeader(authFields[1])
                          sh == parseSignedHeader(authFields[2])
                          sg == parseSignature(authFields[3])
                      IN  IF c.err # "ErrNone" THEN [err |-> c.err, sv |-> NoSignValues]
                          ELSE IF sh.err # "ErrNone"
                          THEN [err |-> sh.err, sv |-> NoSignValues]
                          ELSE IF sg.err # "ErrNone"
                          THEN [err |-> sg.err, sv |-> NoSignValues]
                          ELSE [err |-> "ErrNone",
                                sv  |-> [Credential    |-> c.ch,
                                         SignedHeaders |-> sh.names,
                                         Signature     |-> sg.signature]]

getScope(c) == Join(<<<<c.date>>, c.region, c.service, c.request>>, "/")


-----------------------------------------------------------------------------
(* The signed headers and the canonical request *)

\* A request, as net/http hands it to the handler: Host, Transfer-Encoding and
\* Content-Length are fields of the request and are not in Header.
RECURSIVE extractLoop(_, _, _)
extractLoop(signedHeaders, r, acc) ==
    IF signedHeaders = <<>> THEN [err |-> "ErrNone", hdr |-> acc]
    ELSE LET header == Head(signedHeaders)
             rest   == Tail(signedHeaders)
             k      == http_CanonicalHeaderKey(header)
         IN  IF k \in DOMAIN r.Header
             THEN LET RECURSIVE addAll(_, _)
                      addAll(h, vals) ==
                          IF vals = <<>> THEN h
                          ELSE addAll(HeaderAdd(h, header, Head(vals)), Tail(vals))
                  IN  extractLoop(rest, r, addAll(acc, r.Header[k]))
             ELSE CASE header = "expect" ->
                         extractLoop(rest, r, HeaderSet(acc, header, <<"100-continue">>))
                    [] header = "host" ->
                         extractLoop(rest, r, HeaderSet(acc, header, r.Host))
                    [] header = "transfer-encoding" ->
                         LET RECURSIVE addEnc(_, _)
                             addEnc(h, encs) ==
                                 IF encs = <<>> THEN h
                                 ELSE addEnc(HeaderAdd(h, header, <<Head(encs)>>), Tail(encs))
                         IN  extractLoop(rest, r, addEnc(acc, r.TransferEncoding))
                    [] header = "content-length" ->
                         extractLoop(rest, r,
                                     HeaderSet(acc, header, <<ToString(r.ContentLength)>>))
                    [] OTHER -> [err |-> "ErrUnsignedHeaders", hdr |-> <<>>]

extractSignedHeaders(signedHeaders, r) ==
    IF ~contains(signedHeaders, "host")
    THEN [err |-> "ErrUnsignedHeaders", hdr |-> <<>>]
    ELSE extractLoop(signedHeaders, r, <<>>)

\* a trim of the two ends only
signV4TrimAll_EndsOnly(input) == TrimSpace(input)

\* strings.Join(strings.Fields(input), " ")
signV4TrimAll(input) ==
    LET spaced == [i \in 1..Len(input) |->
                      IF input[i] \in WhiteSpace THEN " " ELSE input[i]]
        fields == SelectSeq(Split(spaced, " "), LAMBDA f : f # <<>>)
    IN  Join(fields, " ")

\* the lowercased names of a header map, in sort.Strings order
sortedLowerNames(h) ==
    SelectSeq(HeaderOrder,
              LAMBDA n : \E k \in DOMAIN h : strings_ToLower(k) = n)

valsOf(h, n) == h[CHOOSE k \in DOMAIN h : strings_ToLower(k) = n]

RECURSIVE joinVals(_)
joinVals(vals) ==
    IF vals = <<>> THEN <<>>
    ELSE IF Len(vals) = 1 THEN signV4TrimAll(vals[1])
    ELSE signV4TrimAll(vals[1]) \o <<",">> \o joinVals(Tail(vals))

RECURSIVE headerLines(_, _)
headerLines(h, names) ==
    IF names = <<>> THEN <<>>
    ELSE <<Head(names), ":">> \o joinVals(valsOf(h, Head(names))) \o <<"\n">>
         \o headerLines(h, Tail(names))

getCanonicalHeaders(signedHeaders) ==
    headerLines(signedHeaders, sortedLowerNames(signedHeaders))

getSignedHeaders(signedHeaders) ==
    LET names == sortedLowerNames(signedHeaders)
    IN  Join([i \in 1..Len(names) |-> <<names[i]>>], ";")

\* an encoding that writes the hex digits as hex.EncodeToString gives them
encodeToken_LowerHex(t) ==
    CASE t = " "      -> <<"%20">>
      [] t = "+"      -> <<"%2b">>
      [] t = "="      -> <<"%3d">>
      [] t = "U+00E9" -> <<"%c3", "%a9">>
      [] OTHER        -> <<t>>

\* encodePath on a token: "/" and runs of unreserved characters stay; any other
\* token is one character, replaced by the %XX groups of its UTF-8 bytes
encodeToken(t) ==
    CASE t = " "      -> <<"%20">>
      [] t = "+"      -> <<"%2B">>
      [] t = "="      -> <<"%3D">>
      [] t = "U+00E9" -> <<"%C3", "%A9">>
      [] OTHER        -> <<t>>

RECURSIVE encodePath(_)
encodePath(pathName) ==
    IF pathName = <<>> THEN <<>>
    ELSE encodeToken(Head(pathName)) \o encodePath(Tail(pathName))


-----------------------------------------------------------------------------
(* net/url: Query() and Values.Encode() *)

\* the tokens of query strings, in byte order
TokenOrder ==
    <<" ", "%2F", "%2f", "+", "-", "..", "/", "1", "2", "7", "8", "=",
      "X-Amz-Credential", "a", "b", "delimiter", "k", "partNumber", "prefix",
      "uploadId", "uploads", "x">>

TokenRank(t) ==
    IF \E i \in 1..Len(TokenOrder) : TokenOrder[i] = t
    THEN CHOOSE i \in 1..Len(TokenOrder) : TokenOrder[i] = t
    ELSE 0

RECURSIVE KeyLess(_, _)
KeyLess(a, b) ==
    IF a = <<>> THEN b # <<>>
    ELSE IF b = <<>> THEN FALSE
    ELSE IF Head(a) = Head(b) THEN KeyLess(Tail(a), Tail(b))
    ELSE TokenRank(Head(a)) < TokenRank(Head(b))

\* url.QueryUnescape per token: '+' is a space, %XX is its byte
queryUnescape(s) ==
    [i \in 1..Len(s) |->
        CASE s[i] = "+" -> " "
          [] s[i] \in {"%2F", "%2f"} -> "/"
          [] OTHER -> s[i]]

\* url.QueryEscape per token: a space is '+', reserved bytes are %XX uppercase
queryEscape(s) ==
    [i \in 1..Len(s) |->
        CASE s[i] = " " -> "+"
          [] s[i] = "/" -> "%2F"
          [] s[i] = "=" -> "%3D"
          [] OTHER -> s[i]]

\* strings.Cut(piece, "=")
cutKey(piece) ==
    IF contains(piece, "=")
    THEN SubSeq(piece, 1, (CHOOSE i \in 1..Len(piece) :
                    piece[i] = "=" /\ \A j \in 1..(i - 1) : piece[j] # "=") - 1)
    ELSE piece

cutValue(piece) ==
    IF contains(piece, "=")
    THEN SubSeq(piece, (CHOOSE i \in 1..Len(piece) :
                    piece[i] = "=" /\ \A j \in 1..(i - 1) : piece[j] # "=") + 1,
                Len(piece))
    ELSE <<>>

\* url.ParseQuery, errors dropped as URL.Query() does: the pairs in order; a
\* piece with a ';' or with an escape that QueryUnescape rejects is left out
url_Query(rawQuery) ==
    LET pieces == IF rawQuery = <<>> THEN <<>> ELSE Split(rawQuery, "&")
        kept   == SelectSeq(pieces, LAMBDA pc : /\ pc # <<>> /\ ~contains(pc, ";")
                                                /\ ~contains(pc, "%zz"))
    IN  [i \in 1..Len(kept) |->
            [k |-> queryUnescape(cutKey(kept[i])),
             v |-> queryUnescape(cutValue(kept[i]))]]

queryHas(pairs, key) == \E i \in 1..Len(pairs) : pairs[i].k = key

\* Values.Get: the first value of the key, or ""
queryGet(pairs, key) ==
    IF queryHas(pairs, key)
    THEN pairs[CHOOSE i \in 1..Len(pairs) :
                   pairs[i].k = key /\ \A j \in 1..(i - 1) : pairs[j].k # key].v
    ELSE <<>>

RECURSIVE sortKeys(_)
sortKeys(ks) ==
    IF ks = {} THEN <<>>
    ELSE LET m == CHOOSE x \in ks : \A y \in ks \ {x} : KeyLess(x, y)
         IN  <<m>> \o sortKeys(ks \ {m})

\* Values.Encode: keys sorted, each key's values in their order of appearance
url_Encode(pairs) ==
    LET keys  == sortKeys({pairs[i].k : i \in 1..Len(pairs)})
        RECURSIVE byKey(_)
        byKey(kk) ==
            IF kk = <<>> THEN <<>>
            ELSE LET mine == SelectSeq(pairs, LAMBDA pr : pr.k = Head(kk))
                 IN  [i \in 1..Len(mine) |->
                         queryEscape(mine[i].k) \o <<"=">> \o queryEscape(mine[i].v)]
                     \o byKey(Tail(kk))
    IN  Join(byKey(keys), "&")

-----------------------------------------------------------------------------
(* The signature *)

getCanonicalRequest(extractedSignedHeaders, payload, queryStr, urlPath, method) ==
    LET rawQuery         == ReplaceToken(queryStr, "+", "%20")
        encodedPath      == encodePath(urlPath)
        canonicalHeaders == getCanonicalHeaders(extractedSignedHeaders)
        signedHeaders    == getSignedHeaders(extractedSignedHeaders)
    IN  Join(<<<<method>>, encodedPath, rawQuery, canonicalHeaders,
               signedHeaders, <<payload>>>>, "\n")

\* t is the instant as t.Format(iso8601Format) renders it
getStringToSign(canonicalRequest, t, scope) ==
    <<signV4Algorithm, "\n", t, "\n">> \o scope
        \o <<"\n", Sha256Hex(canonicalRequest)>>

\* a verifier whose signing key does not depend on the day it is derived on
getSigningKey_AnyDay(secretKey, time, region, service) ==
    sumHMAC(sumHMAC(sumHMAC(sumHMAC(<<"AWS4", secretKey>>, <<"any">>), region),
                    service), <<"aws4_request">>)

getSigningKey(secretKey, time, region, service) ==
    LET date         == sumHMAC(<<"AWS4", secretKey>>, time)
        regionBytes  == sumHMAC(date, region)
        serviceBytes == sumHMAC(regionBytes, service)
    IN  sumHMAC(serviceBytes, "aws4_request")

\* t is the day t.Format("20060102") renders
getSignature(secretKey, t, region, service, stringToSign) ==
    hex_EncodeToString(
        sumHMAC(getSigningKey(secretKey, t, region, service), stringToSign))

compareSignatureV4(sig1, sig2) == sig1 = sig2

isRequestPresignedSignatureV4(r) ==
    queryHas(url_Query(r.RawQuery), <<"X-Amz-Credential">>)

getContentSha256Cksum(r) ==
    LET q == url_Query(r.RawQuery)
        inHeader == "X-Amz-Content-Sha256" \in DOMAIN r.Header
        hv == r.Header["X-Amz-Content-Sha256"][1]
    IN  IF isRequestPresignedSignatureV4(r)
        THEN IF queryHas(q, <<"X-Amz-Content-Sha256">>)
             THEN NameOf(queryGet(q, <<"X-Amz-Content-Sha256">>))
             ELSE IF inHeader THEN NameOf(hv) ELSE unsignedPayload
        ELSE IF inHeader THEN NameOf(hv) ELSE emptySHA256


-----------------------------------------------------------------------------
(* authenticate *)

deny(why) == [ok |-> FALSE, err |-> why]

\* the canonical request authenticate builds once the Authorization header is
\* parsed and the signed headers are extracted
canonicalRequest(r, signV4Values, extractedSignedHeaders) ==
    LET hashedPayload0 == getContentSha256Cksum(r)
        queryStr == url_Encode(url_Query(r.RawQuery))
        \* r.Body is never nil in a request the server hands to a handler
        hashedPayload ==
            IF signV4Values.Credential.service # <<"s3">>
               /\ hashedPayload0 = emptySHA256 /\ Len(r.Body) # 0
            THEN Sha256Hex(r.Body)
            ELSE hashedPayload0
    IN  getCanonicalRequest(extractedSignedHeaders, hashedPayload, queryStr,
                            r.Path, r.Method)

\* io.ReadAll on a body: r.Body is the bytes that are still to be read from
\* it; ReadAll returns them all and leaves nothing to read
io_ReadAll(body) == [buf |-> body, rest |-> <<>>]

\* authenticate's re-hash branch taken: the Authorization header parsed, the
\* signed headers were extracted, the key id and the date passed, the scope
\* names another service than s3 and the payload hash is the default
rehashes(r, cfg) ==
    LET p    == parseSignV4(HeaderGet(r.Header, "Authorization"))
        e    == extractSignedHeaders(p.sv.SignedHeaders, r)
        d1   == HeaderGet(r.Header, "X-Amz-Date")
        date == IF d1 = <<>> THEN HeaderGet(r.Header, "Date") ELSE d1
    IN  /\ p.err = "ErrNone"
        /\ e.err = "ErrNone"
        /\ p.sv.Credential.accessKey = cfg.keyId
        /\ Len(date) = 1 /\ date[1] \in DOMAIN IsoParse
        /\ p.sv.Credential.service # <<"s3">>
        /\ getContentSha256Cksum(r) = emptySHA256

\* an authenticate that reads the body to hash it and leaves it read
authenticateBody_Drained(r, cfg) ==
    IF rehashes(r, cfg) THEN io_ReadAll(r.Body).rest ELSE r.Body

\* what is left to read from r.Body when authenticate returns: the branch
\* reads it all into buf and puts a reader of buf in its place
authenticateBody(r, cfg) ==
    IF rehashes(r, cfg) THEN io_ReadAll(r.Body).buf ELSE r.Body

\* an authenticate that derives the signing key from the configured region
authenticate_ConfigRegion(r, cfg, now) ==
    LET hashedPayload0 == getContentSha256Cksum(r)
        v4Auth         == HeaderGet(r.Header, "Authorization")
        p              == parseSignV4(v4Auth)
        signV4Values   == p.sv
        e  == extractSignedHeaders(signV4Values.SignedHeaders, r)
        d1 == HeaderGet(r.Header, "X-Amz-Date")
        date == IF d1 = <<>> THEN HeaderGet(r.Header, "Date") ELSE d1
    IN  IF p.err # "ErrNone" THEN deny("prob parsing v4 signature")
        ELSE IF e.err # "ErrNone" THEN deny("prob extracting headers")
        ELSE IF signV4Values.Credential.accessKey # cfg.keyId THEN deny("bad key")
        ELSE IF date = <<>> THEN deny("ErrMissingDateHeader")
        ELSE IF ~(Len(date) = 1 /\ date[1] \in DOMAIN IsoParse)
        THEN deny("ErrMalformedDate")
        ELSE
        LET t        == IsoParse[date[1]]
            stringToSign ==
                getStringToSign(canonicalRequest(r, signV4Values, e.hdr), t,
                                getScope(signV4Values.Credential))
            newSignature ==
                getSignature(cfg.secretKey, now,
                             <<cfg.s3region>>,
                             signV4Values.Credential.service, stringToSign)
        IN  IF ~compareSignatureV4(<<newSignature>>, signV4Values.Signature)
            THEN deny("ErrSignatureDoesNotMatch")
            ELSE [ok |-> TRUE, err |-> "nil"]

\* now is time.Now().UTC().Format("20060102") at the call
authenticate(r, cfg, now) ==
    LET hashedPayload0 == getContentSha256Cksum(r)
        v4Auth         == HeaderGet(r.Header, "Authorization")
        p              == parseSignV4(v4Auth)
        signV4Values   == p.sv
        e  == extractSignedHeaders(signV4Values.SignedHeaders, r)
        d1 == HeaderGet(r.Header, "X-Amz-Date")
        date == IF d1 = <<>> THEN HeaderGet(r.Header, "Date") ELSE d1
    IN  IF p.err # "ErrNone" THEN deny("prob parsing v4 signature")
        ELSE IF e.err # "ErrNone" THEN deny("prob extracting headers")
        ELSE IF signV4Values.Credential.accessKey # cfg.keyId THEN deny("bad key")
        ELSE IF date = <<>> THEN deny("ErrMissingDateHeader")
        ELSE IF ~(Len(date) = 1 /\ date[1] \in DOMAIN IsoParse)
        THEN deny("ErrMalformedDate")
        ELSE
        LET t        == IsoParse[date[1]]
            stringToSign ==
                getStringToSign(canonicalRequest(r, signV4Values, e.hdr), t,
                                getScope(signV4Values.Credential))
            newSignature ==
                getSignature(cfg.secretKey, now,
                             signV4Values.Credential.region,
                             signV4Values.Credential.service, stringToSign)
        IN  IF ~compareSignatureV4(<<newSignature>>, signV4Values.Signature)
            THEN deny("ErrSignatureDoesNotMatch")
            ELSE [ok |-> TRUE, err |-> "nil"]


-----------------------------------------------------------------------------
(* A version-4 client: the requests the verifier is run on *)

DayOfTs ==
    [x \in {"20240101T000000Z", "20240102T000000Z"} |->
        IF x = "20240101T000000Z" THEN "20240101" ELSE "20240102"]

PairLess(p, q) == KeyLess(p.k, q.k) \/ (p.k = q.k /\ KeyLess(p.v, q.v))

RECURSIVE sortPairs(_)
sortPairs(ps) ==
    IF ps = {} THEN <<>>
    ELSE LET m == CHOOSE x \in ps : \A y \in ps \ {x} : PairLess(x, y)
         IN  <<m>> \o sortPairs(ps \ {m})

\* the canonical query string of the version-4 scheme: parameters sorted by
\* name, then by value, each URI-encoded, a space as %20
sigV4CanonicalQuery(rawQuery) ==
    LET pairs  == url_Query(rawQuery)
        sorted == sortPairs({pairs[i] : i \in 1..Len(pairs)})
    IN  ReplaceToken(
            Join([i \in 1..Len(sorted) |->
                     queryEscape(sorted[i].k) \o <<"=">> \o queryEscape(sorted[i].v)],
                 "&"),
            "+", "%20")

\* the payload hash a client signs: the x-amz-content-sha256 it sends, or the
\* hash of its body
clientPayloadHash(r) ==
    IF "X-Amz-Content-Sha256" \in DOMAIN r.Header
    THEN NameOf(r.Header["X-Amz-Content-Sha256"][1])
    ELSE Sha256Hex(r.Body)

clientSignature(r, secret, keyDay, scopeDay, region, service, signedNames) ==
    LET hdr == extractSignedHeaders(signedNames, r).hdr
        cr  == Join(<<<<r.Method>>, encodePath(r.Path),
                      sigV4CanonicalQuery(r.RawQuery),
                      getCanonicalHeaders(hdr), getSignedHeaders(hdr),
                      <<clientPayloadHash(r)>>>>, "\n")
        scope == Join(<<<<scopeDay>>, region, service, <<"aws4_request">>>>, "/")
        ts  == r.Header["X-Amz-Date"][1][1]
    IN  getSignature(secret, keyDay, region, service,
                     getStringToSign(cr, ts, scope))

clientAuthorization(accessKey, scopeDay, region, service, signedNames, sig) ==
    <<signV4Algorithm, " ", "Credential", "=">> \o accessKey
        \o <<"/", scopeDay, "/">> \o region \o <<"/">> \o service
        \o <<"/", "aws4_request", ",", " ", "SignedHeaders", "=">>
        \o Join([i \in 1..Len(signedNames) |-> <<signedNames[i]>>], ";")
        \o <<",", " ", "Signature", "=", sig>>

\* r with the Authorization header a client adds
signedRequest(r, accessKey, secret, keyDay, scopeDay, region, service, signedNames) ==
    [r EXCEPT !.Header = @ @@
        ("Authorization" :> <<clientAuthorization(accessKey, scopeDay, region,
            service, signedNames,
            clientSignature(r, secret, keyDay, scopeDay, region, service,
                            signedNames))>>)]


-----------------------------------------------------------------------------
(* The verifier run on the requests of a client *)

\* key ids as genBase64Str makes them: base64 text, which may hold '/'
KeyIds == {<<"k", "1">>, <<"k", "/", "1">>}

OtherKeyId == <<"x", "1">>

\* the regions a server is configured for and a client signs for
Regions == {"us-east-1", "eu-west-1"}

Configs == [keyId : KeyIds, secretKey : {"s1"}, s3region : Regions]

AuthQueries ==
    {<<>>, <<"uploads">>, <<"b", "=", "2", "&", "a", "=", "1">>,
     <<"a", "=", "1", "+", "2">>, <<"a", "=", "1", "&", "x", "=", "%zz">>}

AuthBodies == {<<>>, <<1>>}

ByteValues == {1, 2}

CustomValues == {<<>>, <<"a", " ", " ", "b">>}

ValueTokens == {"a", "b", " ", "\t"}

Services == {<<"s3">>, <<"ec2">>}

SignKinds == {"honest", "wrongSecret", "wrongKeyId", "spacedKeyId", "keyOfToday"}

\* a key id written with a space after its first character
SpacedKeyId(keyId) == <<Head(keyId), " ">> \o Tail(keyId)

\* the access key id a client of a kind names in its Credential
presentedKeyId(cfg, kind) ==
    IF kind = "wrongKeyId" THEN OtherKeyId
    ELSE IF kind = "spacedKeyId" THEN SpacedKeyId(cfg.keyId)
    ELSE cfg.keyId

\* the request a client sends: an s3 client sends and signs the hash of its
\* body; custom = <<>> means no X-Custom header
httpRequest(method, path, query, body, ts, custom, service) ==
    LET h0 == HeaderSet(<<>>, "X-Amz-Date", <<ts>>)
        h1 == IF service = <<"s3">>
              THEN HeaderSet(h0, "X-Amz-Content-Sha256", <<Sha256Hex(body)>>)
              ELSE h0
        h2 == IF custom # <<>> THEN HeaderSet(h1, "X-Custom", custom) ELSE h1
    IN  [Method |-> method, Path |-> path, RawQuery |-> query,
         Host |-> <<"h">>, Header |-> h2, TransferEncoding |-> <<>>,
         ContentLength |-> Len(body), Body |-> body]

plainRequest(query, body, ts, custom, service) ==
    httpRequest("PUT", <<"/", "b", "/", "k">>, query, body, ts, custom, service)

signedNamesOf(custom, service) ==
    <<"host">>
    \o (IF service = <<"s3">> THEN <<"x-amz-content-sha256">> ELSE <<>>)
    \o <<"x-amz-date">>
    \o (IF custom # <<>> THEN <<"x-custom">> ELSE <<>>)

clientRequest(cfg, now, query, body, ts, custom, service, kind) ==
    signedRequest(plainRequest(query, body, ts, custom, service),
                  presentedKeyId(cfg, kind),
                  IF kind = "wrongSecret" THEN "s0" ELSE cfg.secretKey,
                  IF kind = "keyOfToday" THEN now ELSE DayOfTs[ts],
                  DayOfTs[ts], <<cfg.s3region>>, service,
                  signedNamesOf(custom, service))

\* the verifier's variables at the start: a configuration, a date and a request
AuthStart ==
    /\ aCfg \in Configs
    /\ aNow \in Days
    /\ \E query \in AuthQueries, body \in AuthBodies, ts \in DOMAIN DayOfTs,
          custom \in CustomValues, service \in Services, kind \in SignKinds,
          region \in Regions :
          \* the client signs for the region it was told, the configured one or not
          /\ aReq = clientRequest([aCfg EXCEPT !.s3region = region], aNow, query,
                                  body, ts, custom, service, kind)
          /\ aSign = [kind |-> kind,
                      keyDay |-> IF kind = "keyOfToday" THEN aNow ELSE DayOfTs[ts]]
    /\ aTamper = "none"
    /\ aVerdict = "none"

\* handleRequest's call of authenticate
Verify ==
    /\ aVerdict = "none"
    /\ aVerdict' = IF authenticate(aReq, aCfg, aNow).ok THEN "ok" ELSE "denied"
    /\ aReq' = [aReq EXCEPT !.Body = authenticateBody(aReq, aCfg)]
    /\ UNCHANGED <<aCfg, aNow, aSign, aTamper>>
    /\ UNCHANGED fsVars
    /\ UNCHANGED <<concVars, fnVars>>

\* the server's clock passes midnight
Tick ==
    /\ aNow = "20240101"
    /\ aNow' = "20240102"
    /\ aVerdict' = "none"
    /\ UNCHANGED <<aCfg, aReq, aSign, aTamper>>
    /\ UNCHANGED fsVars
    /\ UNCHANGED <<concVars, fnVars>>

\* an accepted request is sent again with one byte of its body changed, the
\* body's hash being the payload hash the client signed
TamperBody ==
    /\ aVerdict = "ok" /\ aTamper = "none"
    /\ clientPayloadHash(aReq) = Sha256Hex(aReq.Body)
    /\ \E i \in 1..Len(aReq.Body) : \E b \in ByteValues \ {aReq.Body[i]} :
          aReq' = [aReq EXCEPT !.Body[i] = b]
    /\ aTamper' = "body"
    /\ aVerdict' = "none"
    /\ UNCHANGED <<aCfg, aNow, aSign>>
    /\ UNCHANGED fsVars
    /\ UNCHANGED <<concVars, fnVars>>

\* ... with one byte of the value of a signed header changed
TamperHeader ==
    /\ aVerdict = "ok" /\ aTamper = "none"
    /\ "X-Custom" \in DOMAIN aReq.Header
    /\ \E i \in 1..Len(aReq.Header["X-Custom"][1]) :
       \E c \in ValueTokens \ {aReq.Header["X-Custom"][1][i]} :
          aReq' = [aReq EXCEPT !.Header["X-Custom"][1][i] = c]
    /\ aTamper' = "header"
    /\ aVerdict' = "none"
    /\ UNCHANGED <<aCfg, aNow, aSign>>
    /\ UNCHANGED fsVars
    /\ UNCHANGED <<concVars, fnVars>>

\* ... with one byte of the date header changed (the two days differ in one digit)
TamperDate ==
    /\ aVerdict = "ok" /\ aTamper = "none"
    /\ \E ts \in (DOMAIN DayOfTs \cup {"2024010xT000000Z"})
                    \ {aReq.Header["X-Amz-Date"][1][1]} :
          aReq' = [aReq EXCEPT !.Header["X-Amz-Date"] = <<<<ts>>>>]
    /\ aTamper' = "date"
    /\ aVerdict' = "none"
    /\ UNCHANGED <<aCfg, aNow, aSign>>
    /\ UNCHANGED fsVars
    /\ UNCHANGED <<concVars, fnVars>>



-----------------------------------------------------------------------------
(* The filesystem.  A path is a sequence of names from the filesystem root, *)
(* a name a sequence of characters; fs maps each existing path to its node. *)

Dir == [dir |-> TRUE, data |-> <<>>]

File(bytes) == [dir |-> FALSE, data |-> bytes]

\* the directory the server runs in, and its -dir_buckets default "./buckets/"
Cwd == << <<"srv">> >>

bucketPath == Cwd \o << <<"buckets">> >>

IsPrefix(p, q) == Len(p) <= Len(q) /\ SubSeq(q, 1, Len(p)) = p

Parent(p) == SubSeq(p, 1, Len(p) - 1)

\* filepath.Clean of a path taken from the filesystem root: "." and empty
\* names dropped, ".." removes the name before it (and is dropped at the root)
RECURSIVE cleanInto(_, _)
cleanInto(done, segs) ==
    IF segs = <<>> THEN done
    ELSE IF Head(segs) \in {<<>>, <<".">>} THEN cleanInto(done, Tail(segs))
    ELSE IF Head(segs) = <<".", ".">>
    THEN cleanInto(IF done = <<>> THEN <<>> ELSE Parent(done), Tail(segs))
    ELSE cleanInto(Append(done, Head(segs)), Tail(segs))

\* filepath.Join(dir, key): dir a clean path, key a string of characters
filepath_Join(dir, key) == cleanInto(dir, Split(key, "/"))

\* os.Stat
Stat(f, p) ==
    IF p \in DOMAIN f THEN "ok"
    ELSE IF \E i \in 0..(Len(p) - 1) :
                SubSeq(p, 1, i) \in DOMAIN f /\ ~f[SubSeq(p, 1, i)].dir
    THEN "ENOTDIR"
    ELSE "ENOENT"

IsDirAt(f, p) == p \in DOMAIN f /\ f[p].dir

IsFileAt(f, p) == p \in DOMAIN f /\ ~f[p].dir

Children(f, p) == {q \in DOMAIN f : Len(q) = Len(p) + 1 /\ IsPrefix(p, q)}

\* os.MkdirAll: fails when p or a name on the way to it is a file
MkdirAllOk(f, p) == \A i \in 0..Len(p) : ~IsFileAt(f, SubSeq(p, 1, i))

MkdirAll(f, p) ==
    [q \in DOMAIN f \cup {SubSeq(p, 1, i) : i \in 0..Len(p)} |->
        IF q \in DOMAIN f THEN f[q] ELSE Dir]

\* os.Mkdir: the parent must be a directory and p must not exist
MkdirOk(f, p) == p \notin DOMAIN f /\ p # <<>> /\ IsDirAt(f, Parent(p))

WriteNode(f, p, node) ==
    [q \in DOMAIN f \cup {p} |-> IF q = p THEN node ELSE f[q]]

\* os.OpenFile(p, O_CREATE|O_WRONLY|O_TRUNC): not on a directory, and the
\* parent must be a directory
OpenTruncOk(f, p) == p # <<>> /\ ~IsDirAt(f, p) /\ IsDirAt(f, Parent(p))

\* os.ReadFile
ReadFileOk(f, p) == IsFileAt(f, p)

\* os.Remove: a file, or a directory with no entries
RemoveOk(f, p) == p \in DOMAIN f /\ p # <<>> /\ (f[p].dir => Children(f, p) = {})

Remove(f, p) == [q \in DOMAIN f \ {p} |-> f[q]]

\* filepath.Dir(p) + "/" + name, for a clean p
Sibling(p, name) == Append(Parent(p), name)


-----------------------------------------------------------------------------
(* The request router's helpers (main.go) *)

\* strings.Replace(s, old, new, -1); an empty old matches before every
\* character and at the end
RECURSIVE replaceAll(_, _, _)
replaceAll(s, old, new) ==
    IF old = <<>>
    THEN IF s = <<>> THEN new
         ELSE new \o <<Head(s)>> \o replaceAll(Tail(s), old, new)
    ELSE IF Len(s) < Len(old) THEN s
    ELSE IF SubSeq(s, 1, Len(old)) = old
    THEN new \o replaceAll(SubSeq(s, Len(old) + 1, Len(s)), old, new)
    ELSE <<Head(s)>> \o replaceAll(Tail(s), old, new)

\* the map params after the loop over the "&"-separated tokens; a later token
\* overwrites an earlier one of the same name
RECURSIVE paramsOf(_, _)
paramsOf(tokens, acc) ==
    IF tokens = <<>> THEN acc
    ELSE LET pp == Split(Head(tokens), "=")
         IN  paramsOf(Tail(tokens),
                      [k \in DOMAIN acc \cup {pp[1]} |->
                          IF k = pp[1] THEN pp[2] ELSE acc[k]])

\* params[name], "" when absent
paramGet(params, name) == IF name \in DOMAIN params THEN params[name] ELSE <<>>

\* panic is TRUE when p[1] is read of a token without "=" (index out of range)
extractBucketAndKey(r) ==
    LET query   == r.RawQuery
        rest    == Tail(r.Path)
        hasKey  == contains(rest, "/")
        cut     == IF hasKey
                   THEN CHOOSE i \in 1..Len(rest) :
                            rest[i] = "/" /\ \A j \in 1..(i - 1) : rest[j] # "/"
                   ELSE Len(rest) + 1
        bucket  == SubSeq(rest, 1, cut - 1)
        key0    == SubSeq(rest, cut + 1, Len(rest))
        tokens  == Split(query, "&")
        bad     == \E i \in 1..Len(tokens) : Len(Split(tokens[i], "=")) < 2
        params  == paramsOf(tokens, <<>>)
    IN  IF key0 = <<>> /\ query # <<>>
        THEN IF bad
             THEN [panic |-> TRUE, bucket |-> bucket, key |-> <<>>, params |-> <<>>]
             ELSE [panic |-> FALSE, bucket |-> bucket,
                   key |-> replaceAll(paramGet(params, <<"prefix">>),
                                      paramGet(params, <<"delimiter">>), <<"/">>),
                   params |-> params]
        ELSE [panic |-> FALSE, bucket |-> bucket, key |-> key0, params |-> <<>>]

isMultiPartUpload(r) ==
    LET queryParams == url_Query(r.RawQuery)
        uploadId    == queryGet(queryParams, <<"uploadId">>)
    IN  [isMulti |-> uploadId # <<>>, uploadId |-> uploadId,
         partNumber |-> queryGet(queryParams, <<"partNumber">>)]

\* strings.HasSuffix(objectKey, "/")
HasSlashSuffix(key) == key # <<>> /\ key[Len(key)] = "/"

\* the temp file of a part: uploadId + "_" + partNumber + "_" + base, beside
\* the destination
partPath(dst, uploadId, partNumber) ==
    Sibling(dst, uploadId \o <<"_">> \o partNumber \o <<"_">> \o dst[Len(dst)])


-----------------------------------------------------------------------------
(* Object store operations (s3ops).  Each operator gives the filesystem and *)
(* the response after the call: [fs, resp].  A response that s3err writes   *)
(* has status "error" and the error's code; a handler that returns without  *)
(* writing anything leaves net/http's implicit empty "200".                 *)

Resp(status, code) ==
    [status |-> status, code |-> code, etag |-> "", body |-> <<>>,
     contents |-> {}, prefixes |-> {}, uploadId |-> <<>>]

s3err(code) == Resp("error", code)

Implicit200 == Resp("200", "")

makeBucket(f, bucketName) ==
    LET bp == filepath_Join(bucketPath, bucketName)
    IN  IF Stat(f, bp) = "ENOENT"
        THEN IF ~MkdirAllOk(f, bp)
             THEN [fs |-> f, resp |-> s3err("ErrInternalError")]
             ELSE [fs |-> MkdirAll(f, bp), resp |-> Resp("201", "")]
        ELSE [fs |-> f, resp |-> Resp("200", "")]

getObject(f, filePath) ==
    IF Stat(f, filePath) = "ENOENT"
    THEN [fs |-> f, resp |-> s3err("ErrNoSuchKey")]
    ELSE IF ~ReadFileOk(f, filePath)
    THEN [fs |-> f, resp |-> s3err("ErrInternalError")]
    ELSE [fs |-> f,
          resp |-> [Implicit200 EXCEPT !.etag = Md5Hex(f[filePath].data),
                                       !.body = f[filePath].data]]

getObjectHead(f, filePath) ==
    IF Stat(f, filePath) = "ENOENT"
    THEN [fs |-> f, resp |-> s3err("ErrNoSuchKey")]
    ELSE IF ~ReadFileOk(f, filePath)
    THEN [fs |-> f, resp |-> Resp("500", "")]
    ELSE [fs |-> f,
          resp |-> [Resp("200", "") EXCEPT !.etag = Md5Hex(f[filePath].data)]]

\* the file putObject writes: the temp file of the part for a part upload
putTarget(r, path) ==
    LET m == isMultiPartUpload(r)
    IN  IF m.isMulti THEN partPath(path, m.uploadId, m.partNumber) ELSE path

\* a putObject that answers for the body but stores none of it
putObject_Empty(f, r, path0, is_dir) ==
    LET path == putTarget(r, path0)
    IN  [fs |-> WriteNode(MkdirAll(f, Parent(path)), path, File(<<>>)),
         resp |-> [Resp("201", "") EXCEPT !.etag = Md5Hex(r.Body)]]

\* a putObject whose deferred function leaves the opened file after an error
putObject_KeepPartial(f, r, path0, is_dir) ==
    LET path == putTarget(r, path0)
        f1   == MkdirAll(f, Parent(path))
    IN  IF r.ReadErr
        THEN [fs |-> WriteNode(f1, path, File(<<>>)),
              resp |-> s3err("ErrInternalError")]
        ELSE [fs |-> WriteNode(f1, path, File(r.Body)),
              resp |-> [Resp("201", "") EXCEPT !.etag = Md5Hex(r.Body)]]

\* r.ReadErr: a turn of the loop fails before the end of the body (the Read of
\* the body or the Write to the file returns an error); the deferred function
\* then removes the file that was opened
putObject(f, r, path0, is_dir) ==
    IF is_dir
    THEN IF Stat(f, path0) = "ENOENT"
         THEN IF ~MkdirOk(f, path0)
              THEN [fs |-> f, resp |-> s3err("ErrInternalError")]
              ELSE [fs |-> WriteNode(f, path0, Dir), resp |-> Resp("201", "")]
         ELSE [fs |-> f, resp |-> Resp("409", "")]
    ELSE
    LET path    == putTarget(r, path0)
        dirPath == Parent(path)
    IN  IF ~MkdirAllOk(f, dirPath)
        THEN [fs |-> f, resp |-> s3err("ErrInternalError")]
        ELSE LET f1 == MkdirAll(f, dirPath)
             IN  IF ~OpenTruncOk(f1, path)
                 THEN [fs |-> f1, resp |-> s3err("ErrInternalError")]
                 ELSE IF r.ReadErr
                 THEN [fs |-> Remove(WriteNode(f1, path, File(<<>>)), path),
                       resp |-> s3err("ErrInternalError")]
                 ELSE [fs |-> WriteNode(f1, path, File(r.Body)),
                       resp |-> [Resp("201", "") EXCEPT !.etag = Md5Hex(r.Body)]]

\* strconv.FormatInt of a part number
FormatInt(n) == <<ToString(n)>>

\* a merge that puts each part before what is already there
RECURSIVE mergeParts_Prepend(_, _, _, _)
mergeParts_Prepend(f, dst, uploadId, parts) ==
    IF parts = <<>> THEN [fs |-> f, resp |-> Implicit200]
    ELSE LET part    == Head(parts)
             srcFile == partPath(dst, uploadId, FormatInt(part.PartNumber))
         IN  IF ~ReadFileOk(f, srcFile)
             THEN [fs |-> f, resp |-> s3err("ErrInternalError")]
             ELSE IF part.ETag # Md5Hex(f[srcFile].data)
             THEN [fs |-> f, resp |-> s3err("ErrSignatureDoesNotMatch")]
             ELSE LET f1 == [f EXCEPT ![dst].data = f[srcFile].data \o @]
                  IN  mergeParts_Prepend(Remove(f1, srcFile), dst, uploadId,
                                         Tail(parts))

\* a merge that appends a part whatever its ETag
RECURSIVE mergeParts_NoVerify(_, _, _, _)
mergeParts_NoVerify(f, dst, uploadId, parts) ==
    IF parts = <<>> THEN [fs |-> f, resp |-> Implicit200]
    ELSE LET part    == Head(parts)
             srcFile == partPath(dst, uploadId, FormatInt(part.PartNumber))
         IN  IF ~ReadFileOk(f, srcFile)
             THEN [fs |-> f, resp |-> s3err("ErrInternalError")]
             ELSE LET f1 == [f EXCEPT ![dst].data = @ \o f[srcFile].data]
                  IN  mergeParts_NoVerify(Remove(f1, srcFile), dst, uploadId,
                                          Tail(parts))

\* the loop over data.Parts: each part is read, verified, appended and removed
RECURSIVE mergeParts(_, _, _, _)
mergeParts(f, dst, uploadId, parts) ==
    IF parts = <<>> THEN [fs |-> f, resp |-> Implicit200]
    ELSE LET part    == Head(parts)
             srcFile == partPath(dst, uploadId, FormatInt(part.PartNumber))
         IN  IF ~ReadFileOk(f, srcFile)
             THEN [fs |-> f, resp |-> s3err("ErrInternalError")]
             ELSE IF part.ETag # Md5Hex(f[srcFile].data)
             THEN [fs |-> f, resp |-> s3err("ErrSignatureDoesNotMatch")]
             ELSE LET f1 == [f EXCEPT ![dst].data = @ \o f[srcFile].data]
                  IN  mergeParts(Remove(f1, srcFile), dst, uploadId, Tail(parts))

\* r.Manifest is what xml.Unmarshal makes of the body: ok and the Parts
finilizeMultipartUpload(f, r, bp, objectKey) ==
    LET uploadId    == isMultiPartUpload(r).uploadId
        dstFilePath == filepath_Join(bp, objectKey)
    IN  IF r.ReadErr THEN [fs |-> f, resp |-> s3err("ErrInternalError")]
        ELSE IF ~r.Manifest.ok THEN [fs |-> f, resp |-> Implicit200]
        ELSE IF ~OpenTruncOk(f, dstFilePath) THEN [fs |-> f, resp |-> Implicit200]
        ELSE mergeParts(WriteNode(f, dstFilePath, File(<<>>)), dstFilePath,
                        uploadId, r.Manifest.Parts)


\* the kernel's walk of dir + "/" + key (os.Open, os.Stat of an uncleaned
\* path): every name on the way must be an existing directory
RECURSIVE walk(_, _, _)
walk(f, cur, segs) ==
    IF segs = <<>> THEN [st |-> "ok", p |-> cur]
    ELSE IF ~f[cur].dir THEN [st |-> "ENOTDIR", p |-> cur]
    ELSE IF Head(segs) \in {<<>>, <<".">>} THEN walk(f, cur, Tail(segs))
    ELSE IF Head(segs) = <<".", ".">>
    THEN walk(f, IF cur = <<>> THEN <<>> ELSE Parent(cur), Tail(segs))
    ELSE IF Append(cur, Head(segs)) \notin DOMAIN f
    THEN [st |-> "ENOENT", p |-> cur]
    ELSE walk(f, Append(cur, Head(segs)), Tail(segs))

\* a clean path as the string the code holds: relative to the directory the
\* server runs in ("./buckets/" is relative)
relStr(p) ==
    IF p = Cwd THEN <<".">>
    ELSE IF IsPrefix(Cwd, p) THEN Join(SubSeq(p, Len(Cwd) + 1, Len(p)), "/")
    ELSE <<".", ".", "/">> \o Join(p, "/")

\* strings.TrimPrefix
TrimPrefix(str, prefix) ==
    IF IsPrefix(prefix, str) THEN SubSeq(str, Len(prefix) + 1, Len(str)) ELSE str

listBuckets(f, localPath) ==
    IF ~IsDirAt(f, localPath) THEN [fs |-> f, resp |-> Implicit200]
    ELSE [fs |-> f,
          resp |-> [Implicit200 EXCEPT !.contents =
                       {q[Len(q)] : q \in {c \in Children(f, localPath) : f[c].dir}}]]

\* Split(objectKey, "/") without its last piece: what filepath.Dir keeps
keyDir(objectKey) ==
    LET segs == Split(objectKey, "/") IN SubSeq(segs, 1, Len(segs) - 1)

listObjects(f, r, localPath, bucketName, objectKey) ==
    LET local_preffix == relStr(filepath_Join(bucketPath, bucketName))
        d == walk(f, localPath, Split(objectKey, "/"))
    IN  IF d.st = "ENOTDIR" THEN [fs |-> f, resp |-> s3err("ErrExistingObjectIsFile")]
        ELSE IF d.st # "ok" THEN [fs |-> f, resp |-> s3err("ErrInternalError")]
        ELSE
        LET single == ~f[d.p].dir
            files  == IF single THEN {d.p} ELSE Children(f, d.p)
            base   == IF single THEN keyDir(objectKey) ELSE Split(objectKey, "/")
            fname(q) == relStr(cleanInto(localPath, Append(base, q[Len(q)])))
        IN  [fs |-> f,
             resp |-> [Implicit200 EXCEPT
                 !.contents = {TrimPrefix(fname(q), local_preffix \o <<"/">>) :
                                  q \in {c \in files : ~f[c].dir}},
                 !.prefixes = {TrimPrefix(fname(q), local_preffix) \o <<"/">> :
                                  q \in {c \in files : f[c].dir
                                            /\ TrimPrefix(fname(c), local_preffix) # <<>>}}]]


-----------------------------------------------------------------------------
(* The handlers.  Each gives [fs, resp, bdir, fpath]: the filesystem and    *)
(* response after the call, the bucket directory the handler resolved and   *)
(* the path it handed to the object store (the bucket directory itself when *)
(* it returned before resolving one).                                       *)

Out(x, bdir, fpath) == [fs |-> x.fs, resp |-> x.resp, bdir |-> bdir, fpath |-> fpath]

Fail(f, rsp, bdir) == [fs |-> f, resp |-> rsp, bdir |-> bdir, fpath |-> bdir]

\* a handler that panics: net/http recovers, nothing is written
Panic(f) == Fail(f, Resp("panic", ""), bucketPath)

handleGetRequest(f, r) ==
    LET e  == extractBucketAndKey(r)
        bp == filepath_Join(bucketPath, e.bucket)
        filePath == filepath_Join(bp, e.key)
    IN  IF e.panic THEN Panic(f)
        ELSE IF e.bucket = <<>> THEN Out(listBuckets(f, bucketPath), bucketPath, bucketPath)
        ELSE IF Stat(f, bp) = "ENOENT" THEN Fail(f, s3err("ErrNoSuchBucket"), bp)
        ELSE IF Stat(f, filePath) # "ok" THEN Fail(f, s3err("ErrNoSuchKey"), bp)
        ELSE IF f[filePath].dir \/ paramGet(e.params, <<"prefix">>) # <<>>
        THEN Out(listObjects(f, r, bp, e.bucket, e.key), bp, filePath)
        ELSE Out(getObject(f, filePath), bp, filePath)

handleHeadRequest(f, r) ==
    LET e  == extractBucketAndKey(r)
        bp == filepath_Join(bucketPath, e.bucket)
        filePath == filepath_Join(bp, e.key)
    IN  IF e.panic THEN Panic(f)
        ELSE IF e.bucket = <<>> THEN Fail(f, s3err("ErrInvalidBucketName"), bucketPath)
        ELSE IF Stat(f, bp) = "ENOENT" THEN Fail(f, s3err("ErrNoSuchBucket"), bp)
        ELSE IF Stat(f, filePath) = "ENOENT" THEN Fail(f, s3err("ErrNoSuchKey"), bp)
        \* fstat is nil after any other Stat error, and fstat.IsDir() panics
        ELSE IF Stat(f, filePath) # "ok" THEN Panic(f)
        ELSE IF f[filePath].dir \/ paramGet(e.params, <<"prefix">>) # <<>>
        THEN Fail(f, s3err("ErrInvalidRequest"), bp)
        ELSE Out(getObjectHead(f, filePath), bp, filePath)

handlePutRequest(f, r) ==
    LET e  == extractBucketAndKey(r)
        bp == filepath_Join(bucketPath, e.bucket)
        filePath == filepath_Join(bp, e.key)
    IN  IF e.panic THEN Panic(f)
        ELSE IF e.bucket # <<>> /\ e.key = <<>> THEN Out(makeBucket(f, e.bucket), bp, bp)
        ELSE IF Stat(f, bp) = "ENOENT" THEN Fail(f, s3err("ErrNoSuchBucket"), bp)
        ELSE Out(putObject(f, r, filePath, HasSlashSuffix(e.key)), bp,
                 IF HasSlashSuffix(e.key) THEN filePath ELSE putTarget(r, filePath))

\* a DELETE that removes a directory together with what is in it
handleDeleteRequest_Force(f, r) ==
    LET e  == extractBucketAndKey(r)
        bp == filepath_Join(bucketPath, e.bucket)
        filePath == filepath_Join(bp, e.key)
    IN  IF e.panic THEN Panic(f)
        ELSE IF Stat(f, bp) = "ENOENT" THEN Fail(f, s3err("ErrNoSuchBucket"), bp)
        ELSE IF Stat(f, filePath) = "ENOENT" THEN Fail(f, s3err("ErrNoSuchKey"), bp)
        ELSE [fs |-> [q \in {x \in DOMAIN f : ~IsPrefix(filePath, x)} |-> f[q]],
              resp |-> Resp("204", ""), bdir |-> bp, fpath |-> filePath]

handleDeleteRequest(f, r) ==
    LET e  == extractBucketAndKey(r)
        bp == filepath_Join(bucketPath, e.bucket)
        filePath == filepath_Join(bp, e.key)
    IN  IF e.panic THEN Panic(f)
        ELSE IF Stat(f, bp) = "ENOENT" THEN Fail(f, s3err("ErrNoSuchBucket"), bp)
        ELSE IF Stat(f, filePath) = "ENOENT" THEN Fail(f, s3err("ErrNoSuchKey"), bp)
        ELSE IF ~RemoveOk(f, filePath)
        THEN [fs |-> f, resp |-> s3err("ErrBucketNotEmpty"), bdir |-> bp,
              fpath |-> filePath]
        ELSE [fs |-> Remove(f, filePath), resp |-> Resp("204", ""), bdir |-> bp,
              fpath |-> filePath]

\* regexp ^uploadId=\d+$ on the raw query
Digits == {"1", "2", "7"}

matchesFinilize(q) ==
    /\ Len(q) >= 3
    /\ q[1] = "uploadId" /\ q[2] = "="
    /\ \A i \in 3..Len(q) : q[i] \in Digits

\* a handlePostRequest that keeps a record of the upload it begins: an empty
\* file at the key
handlePostRequest_Record(f, r, now) ==
    LET e  == extractBucketAndKey(r)
        bp == filepath_Join(bucketPath, e.bucket)
        filePath == filepath_Join(bp, e.key)
    IN  IF e.panic THEN Panic(f)
        ELSE IF Stat(f, bp) = "ENOENT" THEN Fail(f, s3err("ErrNoSuchBucket"), bp)
        ELSE IF r.RawQuery = <<"uploads">>
        THEN IF IsDirAt(f, filePath)
             THEN [fs |-> f, resp |-> s3err("ErrExistingObjectIsDirectory"),
                   bdir |-> bp, fpath |-> filePath]
             ELSE [fs |-> IF OpenTruncOk(f, filePath)
                          THEN WriteNode(f, filePath, File(<<>>)) ELSE f,
                   resp |-> [Resp("200", "") EXCEPT !.uploadId = now],
                   bdir |-> bp, fpath |-> filePath]
        ELSE IF matchesFinilize(r.RawQuery)
        THEN Out(finilizeMultipartUpload(f, r, bp, e.key), bp, filePath)
        ELSE Fail(f, s3err("ErrMalformedPOSTRequest"), bp)

\* now is time.Now().UnixNano() as strconv.FormatInt renders it
handlePostRequest(f, r, now) ==
    LET e  == extractBucketAndKey(r)
        bp == filepath_Join(bucketPath, e.bucket)
        filePath == filepath_Join(bp, e.key)
    IN  IF e.panic THEN Panic(f)
        ELSE IF Stat(f, bp) = "ENOENT" THEN Fail(f, s3err("ErrNoSuchBucket"), bp)
        ELSE IF r.RawQuery = <<"uploads">>
        THEN IF IsDirAt(f, filePath)
             THEN [fs |-> f, resp |-> s3err("ErrExistingObjectIsDirectory"),
                   bdir |-> bp, fpath |-> filePath]
             ELSE [fs |-> f, resp |-> [Resp("200", "") EXCEPT !.uploadId = now],
                   bdir |-> bp, fpath |-> filePath]
        ELSE IF matchesFinilize(r.RawQuery)
        THEN Out(finilizeMultipartUpload(f, r, bp, e.key), bp, filePath)
        ELSE Fail(f, s3err("ErrMalformedPOSTRequest"), bp)

\* a server that serves a request whatever the verifier says
handleRequest_NoGate(f, r, cfg, day, now) ==
    CASE r.Method = "GET"    -> handleGetRequest(f, r)
      [] r.Method = "PUT"    -> handlePutRequest(f, r)
      [] r.Method = "DELETE" -> handleDeleteRequest(f, r)
      [] r.Method = "POST"   -> handlePostRequest(f, r, now)
      [] r.Method = "HEAD"   -> handleHeadRequest(f, r)
      [] OTHER -> Fail(f, Resp("405", ""), bucketPath)

\* handleRequest: the verifier first, then the handler of the method, which
\* gets the request with the body authenticate left in it
handleRequest(f, r, cfg, day, now) ==
    LET left == [r EXCEPT !.Body = authenticateBody(r, cfg)]
    IN  IF ~authenticate(r, cfg, day).ok
        THEN Fail(f, s3err("ErrAccessDenied"), bucketPath)
        ELSE CASE r.Method = "GET"    -> handleGetRequest(f, left)
               [] r.Method = "PUT"    -> handlePutRequest(f, left)
               [] r.Method = "DELETE" -> handleDeleteRequest(f, left)
               [] r.Method = "POST"   -> handlePostRequest(f, left, now)
               [] r.Method = "HEAD"   -> handleHeadRequest(f, left)
               [] OTHER -> Fail(f, Resp("405", ""), bucketPath)


-----------------------------------------------------------------------------
(* The server: requests arrive and handleRequest serves them, one at a time *)

\* the filesystem when the server starts: the bucket directory of
\* -dir_buckets, empty, and config.xml beside it
StartFs ==
    (<<>> :> Dir) @@ (Cwd :> Dir) @@ (bucketPath :> Dir)
    @@ (Append(Cwd, <<"config.xml">>) :> File(<<9>>))

\* the longest manifest a client sends
MaxParts == 2

PartNumbers == {1, 2}

Bodies == {<<1>>, <<2>>}

Nanos == {<<"7">>, <<"8">>}

Manifests ==
    UNION {[1..n -> [PartNumber : PartNumbers, ETag : {Md5Hex(b) : b \in Bodies}]] :
              n \in 0..MaxParts}

NoManifest == [ok |-> FALSE, Parts |-> <<>>]

\* what a client sends: method, URL path, raw query, body, the manifest the
\* body is when it is XML, whether the body breaks off, how it is signed, and
\* the server's clock (UnixNano) when it is served
Desc(m, path, q, body) ==
    [m |-> m, path |-> path, q |-> q, body |-> body, man |-> NoManifest,
     rerr |-> FALSE, kind |-> "honest", at |-> <<"7">>]

PartQuery(n) == <<"partNumber", "=", ToString(n), "&", "uploadId", "=", "7">>

Traverse(target) == <<"prefix", "=">> \o target \o <<"&", "delimiter", "=", "/">>

ObjectPaths == {<<"/", "b", "/", "k">>}

ConfigKey == <<".", ".", "/", ".", ".", "/", "config.xml">>

\* the keys of the files of a bucket that holds a.txt, b.txt and c/x
TreeKeys == {<<"a.txt">>, <<"b.txt">>, <<"c", "/", "x">>}

BucketRequests ==
    {Desc("PUT", <<"/", "b">>, <<>>, <<>>),
     Desc("DELETE", <<"/", "b">>, <<>>, <<>>), Desc("GET", <<"/">>, <<>>, <<>>),
     Desc("GET", <<"/", "b">>, <<>>, <<>>),
     Desc("PUT", <<"/", "b", "/", "d", "/">>, <<>>, <<>>),
     Desc("DELETE", <<"/", "b", "/", "d">>, <<>>, <<>>)}

ObjectRequests ==
    {[Desc("PUT", p, <<>>, b) EXCEPT !.rerr = e] :
        p \in ObjectPaths, b \in Bodies, e \in BOOLEAN}
    \cup {Desc(m, p, <<>>, <<>>) : m \in {"GET", "HEAD", "DELETE"}, p \in ObjectPaths}

PartRequests ==
    {Desc("PUT", p, PartQuery(n), b) :
        p \in ObjectPaths, n \in PartNumbers, b \in Bodies}

\* an upload of part 1 whose body breaks off
BrokenPartRequests ==
    {[Desc("PUT", p, PartQuery(1), <<1>>) EXCEPT !.rerr = TRUE] : p \in ObjectPaths}

InitiateRequests ==
    {[Desc("POST", p, <<"uploads">>, <<>>) EXCEPT !.at = t] :
        p \in ObjectPaths, t \in Nanos}

CompleteRequests(manifests) ==
    {[Desc("POST", p, <<"uploadId", "=", "7">>, <<>>) EXCEPT
          !.man = [ok |-> TRUE, Parts |-> ps]] : p \in ObjectPaths, ps \in manifests}

TraversalRequests ==
    {Desc("PUT", <<"/", "b">>, Traverse(ConfigKey), <<1>>),
     Desc("GET", <<"/", "b">>, Traverse(ConfigKey), <<>>),
     Desc("DELETE", <<"/", "b">>, Traverse(ConfigKey), <<>>),
     Desc("GET", <<"/", "b">>, Traverse(<<"k">>), <<>>),
     Desc("GET", <<"/", "b">>, <<"uploads">>, <<>>)}

\* requests on the bucket root: a PUT whose URL path names no bucket and whose
\* key comes from the prefix parameter, requests on a bucket of that name, and
\* a DELETE whose URL path names no bucket
RootRequests ==
    {Desc("PUT", <<"/">>, Traverse(<<"k">>), <<1>>),
     Desc("DELETE", <<"/">>, <<>>, <<>>),
     Desc("PUT", <<"/", "k">>, <<>>, <<>>),
     Desc("GET", <<"/", "k">>, <<>>, <<>>),
     Desc("DELETE", <<"/", "k">>, <<>>, <<>>),
     Desc("HEAD", <<"/", "k", "/", "o">>, <<>>, <<>>),
     Desc("PUT", <<"/", "k", "/", "o">>, <<>>, <<1>>),
     Desc("GET", <<"/">>, <<>>, <<>>)}

\* requests on a bucket with files and a directory in it
TreeRequests ==
    {Desc("PUT", <<"/", "b">>, <<>>, <<>>),
     Desc("PUT", <<"/", "b", "/", "c", "/">>, <<>>, <<>>),
     Desc("PUT", <<"/", "b", "/", "c">>, <<>>, <<2>>),
     Desc("GET", <<"/", "b">>, <<>>, <<>>),
     Desc("GET", <<"/", "b", "/", "c">>, <<>>, <<>>),
     Desc("GET", <<"/", "b">>, Traverse(<<"c">>), <<>>),
     Desc("DELETE", <<"/", "b">>, <<>>, <<>>),
     Desc("DELETE", <<"/", "b", "/", "c">>, <<>>, <<>>)}
    \cup {Desc("PUT", <<"/", "b", "/">> \o k, <<>>, <<1>>) : k \in TreeKeys}
    \cup {Desc(m, <<"/", "b", "/", "c", "/", "x">>, <<>>, <<>>) :
             m \in {"GET", "HEAD", "DELETE"}}
    \cup {Desc("DELETE", <<"/", "b", "/", "a.txt">>, <<>>, <<>>)}

\* directory markers and uploads begun on directories: c is made a directory
\* or a file, c/e/ is a marker below it, and uploads are begun on the bucket
\* itself, on c and on a key below c
DirRequests ==
    {Desc("PUT", <<"/", "b">>, <<>>, <<>>),
     Desc("PUT", <<"/", "b", "/", "c", "/">>, <<>>, <<1>>),
     Desc("PUT", <<"/", "b", "/", "c">>, <<>>, <<2>>),
     Desc("PUT", <<"/", "b", "/", "c", "/", "e", "/">>, <<>>, <<1>>),
     Desc("DELETE", <<"/", "b", "/", "c">>, <<>>, <<>>),
     Desc("POST", <<"/", "b">>, <<"uploads">>, <<>>),
     Desc("POST", <<"/", "b", "/", "c">>, <<"uploads">>, <<>>),
     Desc("POST", <<"/", "b", "/", "c", "/">>, <<"uploads">>, <<>>),
     Desc("POST", <<"/", "b", "/", "c", "/", "e">>, <<"uploads">>, <<>>)}

\* part uploads whose temp files have the name of an object or of one another:
\* the object 7_1_k and part 1 of upload 7 of k; part 1_1 of upload 7 and part
\* 1 of upload 7_1.  Objects are put with <<2>>, parts with <<1>>.
PartClashRequests ==
    {Desc("PUT", <<"/", "b">>, <<>>, <<>>),
     Desc("PUT", <<"/", "b", "/", "7", "_", "1", "_", "k">>, <<>>, <<2>>),
     Desc("GET", <<"/", "b", "/", "7", "_", "1", "_", "k">>, <<>>, <<>>),
     Desc("PUT", <<"/", "b", "/", "k">>, PartQuery(1), <<1>>),
     Desc("PUT", <<"/", "b", "/", "k">>,
          <<"partNumber", "=", "1", "_", "1", "&", "uploadId", "=", "7">>, <<1>>),
     Desc("PUT", <<"/", "b", "/", "k">>,
          <<"partNumber", "=", "1", "&", "uploadId", "=", "7", "_", "1">>, <<1>>)}

\* an upload in progress: part 1 of upload 7 of k is uploaded, the bucket is
\* listed, the name of the part's temp file is read as a key, and the upload
\* is completed.  No request puts an object of that name.
InFlightRequests ==
    {Desc("PUT", <<"/", "b">>, <<>>, <<>>),
     Desc("PUT", <<"/", "b", "/", "k">>, PartQuery(1), <<1>>),
     Desc("GET", <<"/", "b">>, <<>>, <<>>),
     Desc("GET", <<"/", "b", "/", "7", "_", "1", "_", "k">>, <<>>, <<>>),
     Desc("GET", <<"/", "b", "/", "k">>, <<>>, <<>>),
     [Desc("POST", <<"/", "b", "/", "k">>, <<"uploadId", "=", "7">>, <<>>) EXCEPT
         !.man = [ok |-> TRUE,
                  Parts |-> <<[PartNumber |-> 1, ETag |-> Md5Hex(<<1>>)]>>]]}

\* listings by prefix: bucket b holds the directory ab with x in it and the
\* directory a with the directory b and y in it; the bucket is listed with
\* prefix ab and no delimiter, with prefix ab and delimiter '/', and with
\* prefix a-b and delimiter '-', with the prefix ab/x of a single file, and
\* with the prefix k of the file k and no delimiter
PrefixRequests ==
    {Desc("PUT", <<"/", "b">>, <<>>, <<>>),
     Desc("PUT", <<"/", "b", "/", "a", "b", "/", "x">>, <<>>, <<1>>),
     Desc("PUT", <<"/", "b", "/", "a", "/", "b", "/", "y">>, <<>>, <<2>>),
     Desc("GET", <<"/", "b">>, <<"prefix", "=", "a", "b">>, <<>>),
     Desc("PUT", <<"/", "b", "/", "k">>, <<>>, <<1>>),
     Desc("GET", <<"/", "b">>, <<"prefix", "=", "k">>, <<>>),
     Desc("GET", <<"/", "b">>, Traverse(<<"a", "b">>), <<>>),
     Desc("GET", <<"/", "b">>, Traverse(<<"a", "b", "/", "x">>), <<>>),
     Desc("GET", <<"/", "b">>,
          <<"prefix", "=", "a", "-", "b", "&", "delimiter", "=", "-">>, <<>>)}

\* a request as someone without the secret key signs it
Unsigned(S) == {[d EXCEPT !.kind = "wrongSecret"] : d \in S}

Loads == {"objects", "multipart", "tree", "root", "dirs", "parts", "inflight",
          "prefix"}

ClientRequests(l) ==
    IF l = "objects"
    THEN LET honest == BucketRequests \cup ObjectRequests \cup TraversalRequests
         IN  honest \cup Unsigned(honest)
    ELSE IF l = "tree" THEN TreeRequests
    ELSE IF l = "root" THEN RootRequests
    ELSE IF l = "dirs" THEN DirRequests
    ELSE IF l = "parts" THEN PartClashRequests
    ELSE IF l = "inflight" THEN InFlightRequests
    ELSE IF l = "prefix" THEN PrefixRequests
    ELSE LET short  == {ps \in Manifests : Len(ps) <= 1}
             honest == {Desc("PUT", <<"/", "b">>, <<>>, <<>>),
                        Desc("PUT", <<"/", "b", "/", "k">>, <<>>, <<1>>),
                        Desc("GET", <<"/", "b", "/", "k">>, <<>>, <<>>),
                        Desc("POST", <<"/", "b", "/", "k">>, <<"uploadId", "=", "7">>,
                             <<>>),
                        Desc("POST", <<"/", "b", "/", "k">>, <<"x">>, <<>>)}
                       \cup PartRequests \cup BrokenPartRequests \cup InitiateRequests
                       \cup CompleteRequests(Manifests)
         IN  honest \cup Unsigned(PartRequests \cup InitiateRequests
                                  \cup CompleteRequests(short))

NoRequest == Desc("", <<"/">>, <<>>, <<>>)

\* the *http.Request of a description, signed for the server's configuration
mkRequest(d, cfg, now) ==
    LET ts == CHOOSE x \in DOMAIN DayOfTs : DayOfTs[x] = now
        h  == httpRequest(d.m, d.path, d.q, d.body, ts, <<>>, <<"s3">>)
        sr == signedRequest(h, cfg.keyId,
                            IF d.kind = "wrongSecret" THEN "s0" ELSE cfg.secretKey,
                            now, now, <<cfg.s3region>>, <<"s3">>,
                            signedNamesOf(<<>>, <<"s3">>))
    IN  [Method |-> sr.Method, Path |-> sr.Path, RawQuery |-> sr.RawQuery,
         Host |-> sr.Host, Header |-> sr.Header,
         TransferEncoding |-> sr.TransferEncoding,
         ContentLength |-> sr.ContentLength, Body |-> sr.Body,
         Manifest |-> d.man, ReadErr |-> d.rerr]

\* no request has arrived yet
NoTraffic ==
    /\ req = NoRequest
    /\ pending = FALSE
    /\ resp = Resp("none", "")
    /\ opBdir = bucketPath
    /\ opPath = bucketPath

FsStart == fs = StartFs /\ NoTraffic

\* the verifier's variables while the server is observed: the configuration
\* and the date are the server's, no request is under study
AuthIdle ==
    /\ aCfg = [keyId |-> <<"k", "1">>, secretKey |-> "s1", s3region |-> "us-east-1"]
    /\ aNow = "20240101"
    /\ aReq = mkRequest(NoRequest, aCfg, aNow)
    /\ aSign = [kind |-> "honest", keyDay |-> aNow]
    /\ aTamper = "none"
    /\ aVerdict = "none"

\* a request reaches the server
Arrive ==
    /\ ~pending
    /\ \E d \in ClientRequests(load) : req' = d
    /\ pending' = TRUE
    /\ resp' = Resp("none", "")
    /\ UNCHANGED <<fs, opBdir, opPath, load>>
    /\ UNCHANGED authVars
    /\ UNCHANGED <<concVars, fnVars>>

\* net/http calls handleRequest with it
HandleRequest ==
    /\ pending
    /\ \E r \in {mkRequest(req, aCfg, aNow)} :
       \E done \in {handleRequest(fs, r, aCfg, aNow, req.at)} :
           /\ fs' = done.fs
           /\ resp' = done.resp
           /\ opBdir' = done.bdir
           /\ opPath' = done.fpath
    /\ pending' = FALSE
    /\ UNCHANGED <<req, load>>
    /\ UNCHANGED authVars
    /\ UNCHANGED <<concVars, fnVars>>


-----------------------------------------------------------------------------
(* Handlers running at the same time.  net/http serves each request in a    *)
(* goroutine of its own; the steps are the handlers' system calls on the    *)
(* object's file.                                                           *)

Procs == {1, 2}

OldContent == <<9>>

PutBody == <<5, 6>>

\* the body of a second client that puts the same key
OtherBody == <<7, 8>>

UploadIds == {<<"7">>, <<"8">>}

\* the bytes of part n of an upload, as they were uploaded
PartBytes(u, n) == IF u = <<"7">> THEN <<n>> ELSE <<n + 2>>

GoodManifest(u) ==
    [i \in 1..2 |-> [PartNumber |-> i, ETag |-> Md5Hex(PartBytes(u, i))]]

Jobs ==
    {[op |-> "put", body |-> PutBody, uploadId |-> <<>>, parts |-> <<>>],
     [op |-> "put", body |-> OtherBody, uploadId |-> <<>>, parts |-> <<>>],
     [op |-> "get", body |-> <<>>, uploadId |-> <<>>, parts |-> <<>>],
     [op |-> "initiate", body |-> <<>>, uploadId |-> <<>>, parts |-> <<>>]}
    \cup {[op |-> "complete", body |-> <<>>, uploadId |-> u, parts |-> GoodManifest(u)] :
             u \in UploadIds}

ObjPath == bucketPath \o << <<"b">>, <<"k">> >>

\* bucket b with object k and the parts of two uploads to k
ConcFs ==
    LET f0 == WriteNode(MkdirAll(StartFs, Parent(ObjPath)), ObjPath, File(OldContent))
        pf(u, n) == partPath(ObjPath, u, FormatInt(n))
    IN  [q \in DOMAIN f0 \cup {pf(u, n) : u \in UploadIds, n \in 1..2} |->
            IF q \in DOMAIN f0 THEN f0[q]
            ELSE LET un == CHOOSE x \in UploadIds \X (1..2) : pf(x[1], x[2]) = q
                 IN  File(PartBytes(un[1], un[2]))]

\* a write of chunk at offset off of a file opened without O_APPEND; a gap
\* left by a truncation in between reads as zeros
WriteAt(data, off, chunk) ==
    [i \in 1..(IF Len(data) > off + Len(chunk) THEN Len(data) ELSE off + Len(chunk)) |->
        IF i > off /\ i <= off + Len(chunk) THEN chunk[i - off]
        ELSE IF i <= Len(data) THEN data[i] ELSE 0]

ConcIdle ==
    /\ job = [p \in Procs |-> [op |-> "none", body |-> <<>>, uploadId |-> <<>>,
                               parts |-> <<>>]]
    /\ step = [p \in Procs |-> "idle"]
    /\ pos = [p \in Procs |-> 0]
    /\ reply = [p \in Procs |-> Resp("none", "")]

ConcStart ==
    /\ job \in [Procs -> Jobs]
    /\ step = [p \in Procs |-> "start"]
    /\ pos = [p \in Procs |-> 0]
    /\ reply = [p \in Procs |-> Resp("none", "")]

Frame == UNCHANGED <<authVars, req, pending, resp, opBdir, opPath, load, job, fnVars>>

\* putObject: os.OpenFile(path, O_CREATE|O_WRONLY|O_TRUNC)
PutOpen(p) ==
    /\ step[p] = "start" /\ job[p].op = "put"
    /\ fs' = WriteNode(fs, ObjPath, File(<<>>))
    /\ step' = [step EXCEPT ![p] = "write"]
    /\ pos' = [pos EXCEPT ![p] = 0]
    /\ UNCHANGED reply
    /\ Frame

\* putObject: one turn of the loop, r.Body.Read then file.Write of what came
PutWrite(p) ==
    /\ step[p] = "write" /\ pos[p] < Len(job[p].body)
    /\ fs' = [fs EXCEPT ![ObjPath].data =
                 WriteAt(@, pos[p], <<job[p].body[pos[p] + 1]>>)]
    /\ pos' = [pos EXCEPT ![p] = @ + 1]
    /\ UNCHANGED <<step, reply>>
    /\ Frame

\* putObject: Read gives 0 bytes, the loop ends, the ETag and 201 are written
PutFinish(p) ==
    /\ step[p] = "write" /\ pos[p] = Len(job[p].body)
    /\ step' = [step EXCEPT ![p] = "done"]
    /\ reply' = [reply EXCEPT ![p] = [Resp("201", "") EXCEPT !.etag = Md5Hex(job[p].body)]]
    /\ UNCHANGED <<fs, pos>>
    /\ Frame

\* getObject: os.ReadFile and the response
GetRead(p) ==
    /\ step[p] = "start" /\ job[p].op = "get"
    /\ step' = [step EXCEPT ![p] = "done"]
    /\ reply' = [reply EXCEPT ![p] = getObject(fs, ObjPath).resp]
    /\ UNCHANGED <<fs, pos>>
    /\ Frame

\* finilizeMultipartUpload: os.OpenFile(dst, O_TRUNC|O_APPEND|O_WRONLY|O_CREATE)
CompleteOpen(p) ==
    /\ step[p] = "start" /\ job[p].op = "complete"
    /\ fs' = WriteNode(fs, ObjPath, File(<<>>))
    /\ step' = [step EXCEPT ![p] = "merge"]
    /\ pos' = [pos EXCEPT ![p] = 1]
    /\ UNCHANGED reply
    /\ Frame

\* finilizeMultipartUpload: one turn of the loop over data.Parts
CompletePart(p) ==
    /\ step[p] = "merge" /\ pos[p] <= Len(job[p].parts)
    /\ LET m == mergeParts(fs, ObjPath, job[p].uploadId, <<job[p].parts[pos[p]]>>)
       IN  /\ fs' = m.fs
           /\ IF m.resp.status = "error"
              THEN /\ step' = [step EXCEPT ![p] = "done"]
                   /\ reply' = [reply EXCEPT ![p] = m.resp]
                   /\ UNCHANGED pos
              ELSE /\ pos' = [pos EXCEPT ![p] = @ + 1]
                   /\ UNCHANGED <<step, reply>>
    /\ Frame

\* finilizeMultipartUpload: the loop is over, the handler returns
CompleteFinish(p) ==
    /\ step[p] = "merge" /\ pos[p] > Len(job[p].parts)
    /\ step' = [step EXCEPT ![p] = "done"]
    /\ reply' = [reply EXCEPT ![p] = Implicit200]
    /\ UNCHANGED <<fs, pos>>
    /\ Frame


\* the uploadIds the server has handed out so far
Issued == {reply[q].uploadId : q \in Procs} \ {<<>>}

\* handlePostRequest for POST /b/k?uploads: time.Now().UnixNano() is read once
\* and formatted into the response.  The clock does not go back between two
\* reads, and two reads within one tick of it give the same value.
Initiate(p) ==
    /\ step[p] = "start" /\ job[p].op = "initiate"
    /\ \E t \in {n \in Nanos : \A u \in Issued : ~KeyLess(n, u)} :
       \E r \in {mkRequest(Desc("POST", <<"/", "b", "/", "k">>, <<"uploads">>, <<>>),
                            aCfg, aNow)} :
           reply' = [reply EXCEPT ![p] = handlePostRequest(fs, r, t).resp]
    /\ step' = [step EXCEPT ![p] = "done"]
    /\ UNCHANGED <<fs, pos>>
    /\ Frame


-----------------------------------------------------------------------------
(* The signing helpers run on their own: extractSignedHeaders,              *)
(* getCanonicalHeaders with getSignedHeaders, and encodePath, each applied  *)
(* once to an argument drawn at the start.                                  *)

NoArg == [fn |-> "none", names |-> <<>>, r |-> plainRequest(<<>>, <<>>, "", <<>>, <<>>),
          h |-> <<>>, path |-> <<>>]

NoRes == [done |-> FALSE, err |-> "", hdr |-> <<>>, text |-> <<>>, names |-> <<>>]

FnIdle == fnArg = NoArg /\ fnRes = NoRes

\* the names a client lists in SignedHeaders
SignedNamePool ==
    {"host", "expect", "transfer-encoding", "content-length", "x-amz-date", "x-custom"}

\* the longest SignedHeaders list
MaxNames == 3

SignedNameLists ==
    {l \in UNION {[1..n -> SignedNamePool] : n \in 1..MaxNames} :
        \A i, j \in 1..Len(l) : i # j => l[i] # l[j]}

\* requests as net/http hands them over: X-Amz-Date is always sent, X-Custom
\* sometimes; the body is chunked or has a length
ExtractRequests ==
    {[plainRequest(<<>>, body, "20240101T000000Z", custom, <<"ec2">>)
         EXCEPT !.TransferEncoding = te] :
        body \in AuthBodies, custom \in CustomValues, te \in {<<>>, <<"chunked">>}}

\* header values: plain ones, and one with leading, trailing and repeated
\* white space
HeaderValues == {<<"V">>, <<"h">>, <<" ", "a", " ", "\t", "b", " ">>}

HeaderValueLists ==
    {<<v>> : v \in HeaderValues}
    \cup {<<<<"V">>, <<" ", "a", " ", "\t", "b", " ">>>>,
          <<<<" ", "a", " ", "\t", "b", " ">>, <<"h">>>>}

\* header maps whose names differ in more than case
HeaderMaps ==
    UNION {[K -> HeaderValueLists] :
              K \in (SUBSET {"X-Amz-Date", "host", "X-Custom"}) \ {{}}}

\* the characters of a path: runs of unreserved ones, and single characters
\* that encodePath escapes
PathTokens == {"k", "a.txt", "-_.~", "/", " ", "+", "=", "U+00E9"}

MaxPathLen == 3

PathNames == UNION {[1..n -> PathTokens] : n \in 0..MaxPathLen}

FnStart ==
    /\ \/ \E l \in SignedNameLists, r \in ExtractRequests :
             fnArg = [NoArg EXCEPT !.fn = "extractSignedHeaders", !.names = l, !.r = r]
       \/ \E h \in HeaderMaps : fnArg = [NoArg EXCEPT !.fn = "getCanonicalHeaders", !.h = h]
       \/ \E q \in PathNames : fnArg = [NoArg EXCEPT !.fn = "encodePath", !.path = q]
    /\ fnRes = NoRes

FnFrame == UNCHANGED <<authVars, fsVars, concVars, fnArg>>

ExtractSignedHeaders ==
    /\ fnArg.fn = "extractSignedHeaders" /\ ~fnRes.done
    /\ \E x \in {extractSignedHeaders(fnArg.names, fnArg.r)} :
           fnRes' = [NoRes EXCEPT !.done = TRUE, !.err = x.err, !.hdr = x.hdr]
    /\ FnFrame

\* getCanonicalRequest's two calls on the extracted headers
CanonicalHeaders ==
    /\ fnArg.fn = "getCanonicalHeaders" /\ ~fnRes.done
    /\ fnRes' = [NoRes EXCEPT !.done = TRUE,
                              !.text = getCanonicalHeaders(fnArg.h),
                              !.names = getSignedHeaders(fnArg.h)]
    /\ FnFrame

EncodePath ==
    /\ fnArg.fn = "encodePath" /\ ~fnRes.done
    /\ fnRes' = [NoRes EXCEPT !.done = TRUE, !.text = encodePath(fnArg.path)]
    /\ FnFrame


-----------------------------------------------------------------------------
(* Properties *)

\* the request handleRequest is given for req
served == mkRequest(req, aCfg, aNow)

\* C1: when authenticate does not accept a request, handleRequest answers
\* AccessDenied and the filesystem after the request is the filesystem before it.
C1_DeniedHasNoEffect ==
    [][(pending /\ ~pending' /\ ~authenticate(served, aCfg, aNow).ok)
          => (resp'.status = "error" /\ resp'.code = "ErrAccessDenied" /\ fs' = fs)]_vars

\* a PUT of an object into an existing bucket, not signed with the secret, was
\* answered AccessDenied
C1_Witness ==
    /\ ~pending /\ req.kind = "wrongSecret" /\ req.m = "PUT"
    /\ req.path = <<"/", "b", "/", "k">>
    /\ IsDirAt(fs, Append(bucketPath, <<"b">>))
    /\ resp.code = "ErrAccessDenied"

\* C2: a request correctly signed with the configured secret and the configured
\* key id is accepted, whatever the key id, the request's date and the
\* request's query string are.
C2_SignedIsAccepted ==
    (aSign.kind = "honest" /\ aTamper = "none" /\ aVerdict # "none")
        => aVerdict = "ok"

\* C3: once a request was accepted, the same request with one byte of a signed
\* header's value, of the body (its hash being the signed payload hash) or of
\* the date header changed is rejected.
C3_TamperedIsRejected ==
    (aTamper # "none" /\ aVerdict # "none") => aVerdict = "denied"

\* C10: the signing key is derived from the server's current UTC day: a request
\* is accepted only while the server's day is the day the client derived its
\* signing key for, whatever day the request itself carries.
C10_KeyOfServerDay ==
    aVerdict = "ok" => aSign.keyDay = aNow

\* an accepted request whose own date is another day than the server's, signed
\* with the key of the server's day
C10_Witness ==
    /\ aVerdict = "ok" /\ aSign.kind = "keyOfToday" /\ aTamper = "none"
    /\ DayOfTs[aReq.Header["X-Amz-Date"][1][1]] # aNow


\* C11: the verdict of authenticate on a request depends on the request and
\* the configuration alone: while both stay the same, authenticate gives the
\* same verdict in the state before and in the state after every step.
C11_SameVerdictEveryState ==
    [][(aReq' = aReq /\ aCfg' = aCfg)
          => (authenticate(aReq', aCfg', aNow').ok
                  = authenticate(aReq, aCfg, aNow).ok)]_vars

\* C12: a request whose Credential names another access key id than the
\* configured one is rejected, whatever it is signed with.
C12_OtherKeyIdIsRejected ==
    (presentedKeyId(aCfg, aSign.kind) # aCfg.keyId /\ aVerdict # "none")
        => aVerdict = "denied"


\* C4: the path a handler operates on for a request lies inside the directory
\* of the request's bucket, whether the key came through the URL path or
\* through the prefix and delimiter parameters.
C4_PathInsideBucket ==
    (~pending /\ resp.status # "none") => IsPrefix(opBdir, opPath)


\* handleRequest has just served req, and the verifier had accepted it
Served == pending /\ ~pending' /\ resp'.code # "ErrAccessDenied"

BPath == Append(bucketPath, <<"b">>)

KPath == Append(BPath, <<"k">>)

\* the temp file of part n of upload 7 of b/k
PartFile(n) == partPath(KPath, <<"7">>, FormatInt(n))

IsComplete(d) ==
    d.m = "POST" /\ d.path = <<"/", "b", "/", "k">> /\ d.q = <<"uploadId", "=", "7">>
    /\ d.man.ok

\* the contents of the parts a manifest lists, one after the other
RECURSIVE concatInOrder(_, _)
concatInOrder(f, parts) ==
    IF parts = <<>> THEN <<>>
    ELSE f[PartFile(Head(parts).PartNumber)].data \o concatInOrder(f, Tail(parts))

Matches(f, e) ==
    IsFileAt(f, PartFile(e.PartNumber)) /\ e.ETag = Md5Hex(f[PartFile(e.PartNumber)].data)

Mismatches(f, e) ==
    IsFileAt(f, PartFile(e.PartNumber)) /\ e.ETag # Md5Hex(f[PartFile(e.PartNumber)].data)

\* C5: when a completion succeeds for a manifest whose parts were all uploaded
\* and whose ETags all match, the object's bytes are the parts' contents one
\* after the other in the order of the manifest, ascending or not.
C5_ManifestOrder ==
    [][(Served /\ IsComplete(req) /\ resp'.status = "200"
        /\ \A i \in 1..Len(req.man.Parts) : Matches(fs, req.man.Parts[i]))
          => (IsFileAt(fs', KPath)
              /\ fs'[KPath].data = concatInOrder(fs, req.man.Parts))]_vars

\* a completion with part 2 listed before part 1 succeeded and left two bytes
C5_Witness ==
    /\ ~pending /\ IsComplete(req) /\ resp.status = "200"
    /\ Len(req.man.Parts) = 2
    /\ req.man.Parts[1].PartNumber = 2 /\ req.man.Parts[2].PartNumber = 1
    /\ IsFileAt(fs, KPath) /\ Len(fs[KPath].data) = 2

\* entry i of the manifest is the first whose ETag does not match: the entries
\* before it name different parts, all uploaded, all matching
FirstMismatch(f, parts, i) ==
    /\ Mismatches(f, parts[i])
    /\ \A j \in 1..(i - 1) : Matches(f, parts[j])
    /\ \A j \in 1..i : \A k \in 1..i : j # k => parts[j].PartNumber # parts[k].PartNumber

\* C6: at the first manifest entry whose ETag is not the MD5 of its temp file
\* the completion ends with an error; that entry and the later ones append
\* nothing and keep their temp files; the earlier entries' bytes stay in the
\* destination and their temp files are gone.
C6_MismatchAborts ==
    [][(Served /\ IsComplete(req) /\ IsDirAt(fs, BPath))
          => \A i \in 1..Len(req.man.Parts) :
                FirstMismatch(fs, req.man.Parts, i)
                => /\ resp'.status = "error"
                   /\ IsFileAt(fs', KPath)
                   /\ fs'[KPath].data =
                         concatInOrder(fs, SubSeq(req.man.Parts, 1, i - 1))
                   /\ \A j \in 1..(i - 1) :
                         PartFile(req.man.Parts[j].PartNumber) \notin DOMAIN fs'
                   /\ \A j \in i..Len(req.man.Parts) :
                         LET pf == PartFile(req.man.Parts[j].PartNumber)
                         IN  (pf \in DOMAIN fs
                              /\ \A k \in 1..(i - 1) :
                                    req.man.Parts[k].PartNumber
                                        # req.man.Parts[j].PartNumber)
                             => (pf \in DOMAIN fs' /\ fs'[pf] = fs[pf])]_vars

\* a completion stopped at its second entry: the first part's bytes are in the
\* destination, the second part's temp file is still there
C6_Witness ==
    /\ ~pending /\ IsComplete(req) /\ resp.code = "ErrSignatureDoesNotMatch"
    /\ Len(req.man.Parts) = 2
    /\ IsFileAt(fs, KPath) /\ Len(fs[KPath].data) = 1
    /\ PartFile(req.man.Parts[1].PartNumber) \notin DOMAIN fs
    /\ PartFile(req.man.Parts[2].PartNumber) \in DOMAIN fs

IsPlain(d, m) == d.m = m /\ d.path = <<"/", "b", "/", "k">> /\ d.q = <<>>

\* C7: a successful PUT of a body to a key stores exactly that body and
\* answers its MD5; a GET of the key answers the stored bytes and their MD5,
\* a HEAD their MD5: the body comes back and the three ETags are one value.
C7_RoundTrip ==
    [][Served =>
        /\ (IsPlain(req, "PUT") /\ resp'.status = "201")
              => (IsFileAt(fs', KPath) /\ fs'[KPath].data = req.body
                  /\ resp'.etag = Md5Hex(req.body))
        /\ (IsPlain(req, "GET") /\ IsFileAt(fs, KPath))
              => (resp'.status = "200" /\ resp'.body = fs[KPath].data
                  /\ resp'.etag = Md5Hex(fs[KPath].data) /\ fs' = fs)
        /\ (IsPlain(req, "HEAD") /\ IsFileAt(fs, KPath))
              => (resp'.status = "200" /\ resp'.etag = Md5Hex(fs[KPath].data)
                  /\ fs' = fs)]_vars

\* a GET answered the body <<2>> that only a PUT can have stored
C7_Witness ==
    /\ ~pending /\ IsPlain(req, "GET") /\ resp.status = "200"
    /\ resp.body = <<2>> /\ resp.etag = Md5Hex(<<2>>)
    /\ load = "objects"


\* what a write leaves in the object when it runs alone
RECURSIVE partsInOrder(_, _)
partsInOrder(u, parts) ==
    IF parts = <<>> THEN <<>>
    ELSE PartBytes(u, Head(parts).PartNumber) \o partsInOrder(u, Tail(parts))

Written(j) == IF j.op = "put" THEN j.body ELSE partsInOrder(j.uploadId, j.parts)

\* C8: a GET of a key that runs while a PUT or a completion writes the key
\* answers the whole content of before the write or the whole content of
\* after it, never a part of it.
C8_NoPartialRead ==
    \A g \in Procs : \A w \in Procs :
        (job[g].op = "get" /\ job[w].op \in {"put", "complete"}
         /\ step[g] = "done" /\ reply[g].status = "200")
            => reply[g].body \in {OldContent, Written(job[w])}

\* C9: two completions of the same key that run at the same time do not mix
\* their appends: when both are over the object is all that one of them wrote.
C9_CompletionsSerialized ==
    \A p \in Procs : \A q \in Procs :
        (p # q /\ job[p].op = "complete" /\ job[q].op = "complete"
         /\ job[p].uploadId # job[q].uploadId
         /\ step[p] = "done" /\ step[q] = "done")
            => (IsFileAt(fs, ObjPath)
                /\ fs[ObjPath].data \in {Written(job[p]), Written(job[q])})


\* the bucket and key handleRequest's handlers extract from req
Named == extractBucketAndKey(served)

\* a directory of that name lies directly under the bucket root
BucketExists(f, name) == name # <<>> /\ IsDirAt(f, Append(bucketPath, name))

\* req is an operation on an object or on a bucket's entries: not the listing
\* of the buckets, not the creation of a bucket
IsObjectOp(d) ==
    \/ d.m \in {"HEAD", "DELETE", "POST"}
    \/ d.m = "GET" /\ d.path # <<"/">>
    \/ d.m = "PUT" /\ ~Named.panic /\ Named.key # <<>>

\* every file under the bucket root lies inside a directory directly under it
FilesInsideBuckets(f) ==
    \A p \in DOMAIN f :
        (IsPrefix(bucketPath, p) /\ ~f[p].dir)
            => (Len(p) >= Len(bucketPath) + 2
                /\ IsDirAt(f, SubSeq(p, 1, Len(bucketPath) + 1)))

\* C13: an authenticated GET, HEAD, PUT of an object, DELETE or POST whose
\* bucket is not an existing directory directly under the bucket root is
\* answered NoSuchBucket and leaves the filesystem as it was; and every file
\* under the bucket root lies inside a bucket directory.
C13_ObjectOpsNeedBucket ==
    [][/\ (Served /\ IsObjectOp(req) /\ ~BucketExists(fs, Named.bucket))
              => (resp'.code = "ErrNoSuchBucket" /\ fs' = fs)
       /\ FilesInsideBuckets(fs')]_vars


\* the file or directory the URL path of a request names, the query being empty
TargetOf(d) == cleanInto(bucketPath, Split(d.path, "/"))

\* C14: a DELETE of a bucket or of a directory in a bucket that still has
\* entries is answered with the not-empty error, and the filesystem after it
\* is the filesystem before it.
C14_DeleteNonEmptyConflicts ==
    [][(Served /\ req.m = "DELETE" /\ req.q = <<>>
        /\ Len(TargetOf(req)) > Len(bucketPath)
        /\ IsDirAt(fs, TargetOf(req)) /\ Children(fs, TargetOf(req)) # {})
          => (resp'.status = "error" /\ resp'.code = "ErrBucketNotEmpty"
              /\ fs' = fs)]_vars

\* a DELETE of the directory c of bucket b was refused while c held x
C14_Witness ==
    /\ ~pending /\ req.m = "DELETE" /\ req.path = <<"/", "b", "/", "c">>
    /\ resp.code = "ErrBucketNotEmpty"
    /\ IsFileAt(fs, bucketPath \o << <<"b">>, <<"c">>, <<"x">> >>)


\* the path of an entry relative to the directory of bucket b, as a string
RelKey(q) == Join(SubSeq(q, Len(BPath) + 1, Len(q)), "/")

\* C15: a listing of a directory of bucket b answers one object entry for
\* every file directly in it, keyed by the file's path relative to the bucket,
\* and one common prefix for every directory directly in it, keyed by that
\* directory's path relative to the bucket and a '/' after it; nothing else.
C15_ListsImmediateChildren ==
    [][(Served /\ req.m = "GET" /\ req.q = <<>>
        /\ IsPrefix(BPath, TargetOf(req)) /\ IsDirAt(fs, TargetOf(req)))
          => /\ resp'.status = "200"
             /\ resp'.contents =
                   {RelKey(q) : q \in {c \in Children(fs, TargetOf(req)) : ~fs[c].dir}}
             /\ resp'.prefixes =
                   {RelKey(q) \o <<"/">> :
                       q \in {c \in Children(fs, TargetOf(req)) : fs[c].dir}}]_vars

\* the path of a request names a bucket and nothing more
IsBucketPath(path) == Len(path) = 2 /\ path[1] = "/"

\* C16: a PUT of a bucket name creates the bucket's directory and answers 201
\* when there is no such directory, answers 200 and changes nothing when there
\* is one, and in both cases the directory exists afterwards.
C16_CreateBucketIdempotent ==
    [][(Served /\ req.m = "PUT" /\ req.q = <<>> /\ IsBucketPath(req.path))
          => /\ ~IsDirAt(fs, TargetOf(req)) => resp'.status = "201"
             /\ IsDirAt(fs, TargetOf(req)) => (resp'.status = "200" /\ fs' = fs)
             /\ IsDirAt(fs', TargetOf(req))]_vars

\* C17: a GET or a HEAD of a key of an existing bucket is answered NoSuchKey
\* whenever nothing is stored under the key, as it is from a successful DELETE
\* of the key until the key is written again.
C17_AbsentKeyIsNoSuchKey ==
    [][(Served /\ req.m \in {"GET", "HEAD"} /\ req.q = <<>>
        /\ Len(TargetOf(req)) > Len(bucketPath) + 1
        /\ IsDirAt(fs, SubSeq(TargetOf(req), 1, Len(bucketPath) + 1))
        /\ TargetOf(req) \notin DOMAIN fs)
          => (resp'.status = "error" /\ resp'.code = "ErrNoSuchKey")]_vars


\* C18: a completion whose first manifest entry fails, its part file missing
\* or its ETag not the MD5 of the part file, leaves an object that was stored
\* at the destination key with the content it had.
C18_FirstPartFailureKeepsObject ==
    [][(Served /\ IsComplete(req) /\ IsFileAt(fs, KPath)
        /\ Len(req.man.Parts) >= 1 /\ ~Matches(fs, req.man.Parts[1]))
          => (IsFileAt(fs', KPath) /\ fs'[KPath].data = fs[KPath].data)]_vars

IsUploadPart(d, n) ==
    d.m = "PUT" /\ d.path = <<"/", "b", "/", "k">> /\ d.q = PartQuery(n)

\* the completion req merges part n: an entry of its manifest names n, and
\* that entry and the entries before it name different parts that all match
MergesPart(f, d, n) ==
    /\ IsComplete(d)
    /\ \E i \in 1..Len(d.man.Parts) :
          /\ d.man.Parts[i].PartNumber = n
          /\ \A j \in 1..i : Matches(f, d.man.Parts[j])
          /\ \A j \in 1..i : \A k \in 1..i :
                j # k => d.man.Parts[j].PartNumber # d.man.Parts[k].PartNumber

\* C19: an upload of part n answered 201 leaves the part's temp file with the
\* body; a temp file that is there before a request is there after it unless
\* the request is a completion that merges that part (no request of the
\* workload deletes a temp file by its own key).
C19_PartFileLifecycle ==
    [][Served =>
        \A n \in PartNumbers :
            /\ (IsUploadPart(req, n) /\ resp'.status = "201")
                  => (IsFileAt(fs', PartFile(n)) /\ fs'[PartFile(n)].data = req.body)
            /\ (PartFile(n) \in DOMAIN fs /\ PartFile(n) \notin DOMAIN fs')
                  => MergesPart(fs, req, n)
            /\ (PartFile(n) \in DOMAIN fs /\ MergesPart(fs, req, n))
                  => PartFile(n) \notin DOMAIN fs']_vars


\* C20: a PUT of an object that fails while the body is written leaves no
\* file at the destination and answers an error; a PUT that succeeds leaves
\* the file it wrote.
C20_FailedPutRemovesFile ==
    [][(Served /\ IsPlain(req, "PUT") /\ IsDirAt(fs, BPath) /\ ~IsDirAt(fs, KPath))
          => /\ req.rerr => (resp'.status = "error" /\ KPath \notin DOMAIN fs')
             /\ ~req.rerr => (resp'.status = "201" /\ IsFileAt(fs', KPath)
                              /\ fs'[KPath].data = req.body)]_vars

\* a PUT of b/k broke off and was answered with an error; nothing is left at
\* the key
C20_Witness ==
    /\ ~pending /\ IsPlain(req, "PUT") /\ req.rerr /\ req.kind = "honest"
    /\ resp.code = "ErrInternalError"
    /\ IsDirAt(fs, BPath) /\ KPath \notin DOMAIN fs


\* req is a completion request for b/k, whatever its body is
IsCompleteUrl(d) ==
    d.m = "POST" /\ d.path = <<"/", "b", "/", "k">> /\ d.q = <<"uploadId", "=", "7">>

\* C21: no authenticated request makes its handler fault, and a request
\* during which a failure occurred (here: a completion whose body is no
\* manifest) is answered with an error document.
C21_NoFaultNoSilentFailure ==
    [][Served =>
        /\ resp'.status # "panic"
        /\ (IsCompleteUrl(req) /\ IsDirAt(fs, BPath) /\ ~req.man.ok)
              => resp'.status = "error"]_vars


\* C22: two initiate-multipart-upload calls, one after the other or at the
\* same time, never return the same uploadId.
C22_UploadIdsDistinct ==
    \A p, q \in Procs :
        (p # q /\ job[p].op = "initiate" /\ job[q].op = "initiate"
         /\ step[p] = "done" /\ step[q] = "done")
            => reply[p].uploadId # reply[q].uploadId


IsInitiate(d) == d.m = "POST" /\ d.q = <<"uploads">>

\* C23: an initiate-multipart-upload in an existing bucket fails with
\* ExistingObjectIsDirectory and returns no uploadId exactly when its target
\* resolves to a directory; otherwise it answers 200 with an uploadId.
C23_InitiateFailsOnDirectoryOnly ==
    [][(Served /\ IsInitiate(req) /\ BucketExists(fs, Named.bucket)) =>
        IF IsDirAt(fs, TargetOf(req))
        THEN resp'.code = "ErrExistingObjectIsDirectory" /\ resp'.uploadId = <<>>
        ELSE resp'.status = "200" /\ resp'.uploadId # <<>>]_vars

\* a PUT of a directory marker: a key that ends in "/"
IsMarkerPut(d) ==
    d.m = "PUT" /\ d.q = <<>> /\ Len(d.path) > 3 /\ d.path[Len(d.path)] = "/"

\* nothing is at p and no regular file lies on the way to it
NothingAt(f, p) == Stat(f, p) = "ENOENT"

\* C24: a PUT of a directory marker in an existing bucket creates the directory
\* and answers 201 when nothing occupies the path, answers 409 and changes
\* nothing when a regular file occupies it, and never writes the request body
\* as the content of a file.
C24_MarkerCreatesOrConflicts ==
    [][(Served /\ IsMarkerPut(req) /\ BucketExists(fs, Named.bucket)) =>
        /\ NothingAt(fs, TargetOf(req))
              => (resp'.status = "201" /\ IsDirAt(fs', TargetOf(req)))
        /\ IsFileAt(fs, TargetOf(req)) => (resp'.status = "409" /\ fs' = fs)
        /\ \A q \in DOMAIN fs' : ~fs'[q].dir => (q \in DOMAIN fs /\ fs'[q] = fs[q])]_vars


\* the names extractSignedHeaders can take from the request itself
FromRequest == {"host", "expect", "transfer-encoding", "content-length"}

Sent(r, n) == http_CanonicalHeaderKey(n) \in DOMAIN r.Header

NamesOf(l) == {l[i] : i \in 1..Len(l)}

\* the values the result must hold for a signed name the request did not send
\* as a header
ValuesFromRequest(r, n) ==
    CASE n = "host" -> <<r.Host>>
      [] n = "expect" -> <<<<"100-continue">>>>
      [] n = "transfer-encoding" ->
             [i \in 1..Len(r.TransferEncoding) |-> <<r.TransferEncoding[i]>>]
      [] n = "content-length" -> <<FormatInt(r.ContentLength)>>

\* C25: extractSignedHeaders fails when host is not signed and when a signed
\* name is neither sent nor one of host, expect, transfer-encoding and
\* content-length; when it succeeds, its result has an entry for every signed
\* name, taken from the sent header or, for the four, from the request.
C25_ExtractedHeadersComplete ==
    (fnArg.fn = "extractSignedHeaders" /\ fnRes.done) =>
        LET r == fnArg.r
            names == NamesOf(fnArg.names)
        IN  /\ "host" \notin names => fnRes.err = "ErrUnsignedHeaders"
            /\ (\E n \in names : ~Sent(r, n) /\ n \notin FromRequest)
                  => fnRes.err = "ErrUnsignedHeaders"
            /\ fnRes.err = "ErrNone" =>
                  \A n \in names :
                      /\ http_CanonicalHeaderKey(n) \in DOMAIN fnRes.hdr
                      /\ fnRes.hdr[http_CanonicalHeaderKey(n)] =
                            IF Sent(r, n) THEN r.Header[http_CanonicalHeaderKey(n)]
                            ELSE ValuesFromRequest(r, n)


\* authenticate got as far as the signature: it built the canonical request
Signs == authenticate(aReq, aCfg, aNow).err \in {"nil", "ErrSignatureDoesNotMatch"}

\* the third line of the canonical request authenticate builds for aReq
QueryComponent ==
    LET p == parseSignV4(HeaderGet(aReq.Header, "Authorization"))
        e == extractSignedHeaders(p.sv.SignedHeaders, aReq)
    IN  Split(canonicalRequest(aReq, p.sv, e.hdr), "\n")[3]

\* C26: the query line of the canonical request that authenticate signs is
\* the raw query with each '+' replaced by '%20' and nothing else changed.
C26_QueryIsRawQuery ==
    (aVerdict # "none" /\ Signs)
        => QueryComponent = ReplaceToken(aReq.RawQuery, "+", "%20")


\* a header value with its ends trimmed and each run of white space inside it
\* turned into one space; st is "start" before the first word, "gap" after
\* white space that follows a word, "word" otherwise
RECURSIVE Squeeze(_, _)
Squeeze(v, st) ==
    IF v = <<>> THEN <<>>
    ELSE IF Head(v) \in {" ", "\t"}
    THEN Squeeze(Tail(v), IF st = "start" THEN "start" ELSE "gap")
    ELSE (IF st = "gap" THEN <<" ">> ELSE <<>>) \o <<Head(v)>> \o Squeeze(Tail(v), "word")

RECURSIVE CommaJoined(_)
CommaJoined(vals) ==
    IF vals = <<>> THEN <<>>
    ELSE Squeeze(Head(vals), "start")
         \o (IF Len(vals) > 1 THEN <<",">> ELSE <<>>) \o CommaJoined(Tail(vals))

\* the lowercased names of the header maps, in ascending order
Ascending == <<"host", "x-amz-date", "x-custom">>

Lowered == [k \in {"X-Amz-Date", "host", "X-Custom"} |->
               CASE k = "X-Amz-Date" -> "x-amz-date"
                 [] k = "X-Custom" -> "x-custom"
                 [] OTHER -> "host"]

\* C27: getCanonicalHeaders writes one line name ':' values '\n' per header
\* name, the names lowercased and ascending, the values joined by ',' with
\* their ends trimmed and each run of white space collapsed to one space;
\* getSignedHeaders writes the same names in the same order joined by ';'.
\* For {X-Amz-Date: V, host: h} the block is host:h\nx-amz-date:V\n.
C27_CanonicalHeaderBlock ==
    (fnArg.fn = "getCanonicalHeaders" /\ fnRes.done) =>
        LET h     == fnArg.h
            n     == Cardinality(DOMAIN h)
            lines == Split(fnRes.text, "\n")
            key(i) == CHOOSE k \in DOMAIN h : Lowered[k] = lines[i][1]
            rank(x) == CHOOSE i \in 1..Len(Ascending) : Ascending[i] = x
        IN  /\ Len(lines) = n + 1 /\ lines[n + 1] = <<>>
            /\ {lines[i][1] : i \in 1..n} = {Lowered[k] : k \in DOMAIN h}
            /\ \A i, j \in 1..n : i < j => rank(lines[i][1]) < rank(lines[j][1])
            /\ \A i \in 1..n :
                   lines[i] = <<lines[i][1], ":">> \o CommaJoined(h[key(i)])
            /\ fnRes.names = Join([i \in 1..n |-> <<lines[i][1]>>], ";")
            /\ h = ("X-Amz-Date" :> <<<<"V">>>> @@ "host" :> <<<<"h">>>>)
                  => fnRes.text = <<"host", ":", "h", "\n", "x-amz-date", ":", "V", "\n">>

\* the block was written for three names, one of them with two values of
\* which one has white space to collapse
C27_Witness ==
    /\ fnArg.fn = "getCanonicalHeaders" /\ fnRes.done
    /\ DOMAIN fnArg.h = {"X-Amz-Date", "host", "X-Custom"}
    /\ fnArg.h["X-Custom"] = <<<<"V">>, <<" ", "a", " ", "\t", "b", " ">>>>
    /\ fnRes.names = <<"host", ";", "x-amz-date", ";", "x-custom">>


\* the path tokens made of A-Z a-z 0-9 - _ . ~ / only
Unreserved == {"k", "a.txt", "-_.~", "/"}

\* the UTF-8 bytes of the other characters, each as its %XX group
Utf8Groups ==
    [t \in PathTokens \ Unreserved |->
        CASE t = " " -> <<"%20">>
          [] t = "+" -> <<"%2B">>
          [] t = "=" -> <<"%3D">>
          [] OTHER   -> <<"%C3", "%A9">>]

Image(t) == IF t \in Unreserved THEN <<t>> ELSE Utf8Groups[t]

\* where the image of the i-th token of q starts in the encoded path
RECURSIVE StartOf(_, _)
StartOf(q, i) == IF i = 1 THEN 1 ELSE StartOf(q, i - 1) + Len(Image(q[i - 1]))

\* C28: encodePath returns a path of unreserved characters unchanged, and in
\* any other path keeps each unreserved character and puts, in the place of
\* each other character, the uppercase %XX groups of its UTF-8 bytes.
C28_EncodePathEscapes ==
    (fnArg.fn = "encodePath" /\ fnRes.done) =>
        LET q == fnArg.path
            out == fnRes.text
        IN  /\ (\A i \in 1..Len(q) : q[i] \in Unreserved) => out = q
            /\ Len(out) = StartOf(q, Len(q) + 1) - 1
            /\ \A i \in 1..Len(q) :
                   SubSeq(out, StartOf(q, i), StartOf(q, i + 1) - 1) = Image(q[i])

\* a path with an é between unreserved characters was encoded
C28_Witness ==
    /\ fnArg.fn = "encodePath" /\ fnRes.done
    /\ fnArg.path = <<"a.txt", "U+00E9", "/">>
    /\ fnRes.text = <<"a.txt", "%C3", "%A9", "/">>


\* every entry of the manifest names a part of its own whose temp file is
\* there and has the ETag the entry claims
AllPartsGood(f, parts) ==
    /\ \A i \in 1..Len(parts) : Matches(f, parts[i])
    /\ \A i, j \in 1..Len(parts) : i # j => parts[i].PartNumber # parts[j].PartNumber

\* C29: a completion in an existing bucket is answered with success only if
\* its manifest was parsed, its destination could be opened and every part of
\* the manifest was found, verified and appended; any other outcome is an
\* error response.
C29_SuccessOnlyWhenAssembled ==
    [][(Served /\ IsCompleteUrl(req) /\ IsDirAt(fs, BPath)) =>
        IF req.man.ok /\ OpenTruncOk(fs, KPath) /\ AllPartsGood(fs, req.man.Parts)
        THEN resp'.status = "200"
        ELSE resp'.status = "error"]_vars


\* d uploads a part: a PUT of a key with an uploadId in its query
IsPartPut(d) ==
    d.m = "PUT" /\ Len(d.path) > 3 /\ queryHas(url_Query(d.q), <<"uploadId">>)

\* d puts an ordinary object
IsObjectPut(d) ==
    d.m = "PUT" /\ Len(d.path) > 3 /\ d.q = <<>> /\ d.path[Len(d.path)] # "/"

\* the (uploadId, partNumber, key) of a part upload
TripleOf(d) ==
    <<queryGet(url_Query(d.q), <<"uploadId">>),
      queryGet(url_Query(d.q), <<"partNumber">>), d.path>>

\* the temp file of the part d uploads
TempOf(d) == partPath(TargetOf(d), TripleOf(d)[1], TripleOf(d)[2])

\* C30: a part upload writes the temp file of its (uploadId, partNumber, key)
\* and nothing else: no other triple has the same temp file, no ordinary
\* object has it as its path, and every other file is left as it was.
C30_PartFilesAreDisjoint ==
    [][(Served /\ IsPartPut(req) /\ BucketExists(fs, Named.bucket)) =>
        /\ \A d \in ClientRequests(load) :
               (IsPartPut(d) /\ TripleOf(d) # TripleOf(req)) => TempOf(d) # TempOf(req)
        /\ \A d \in ClientRequests(load) :
               (IsObjectPut(d) /\ IsFileAt(fs, TargetOf(d)) /\ fs[TargetOf(d)].data = d.body)
                   => fs'[TargetOf(d)] = fs[TargetOf(d)]
        /\ \A q \in DOMAIN fs : q # TempOf(req) => (q \in DOMAIN fs' /\ fs'[q] = fs[q])]_vars


\* C31: while a multipart upload is in progress its temp part files are not
\* visible as objects: no listing has an entry for a part file, and no GET of
\* a key returns a part's bytes.  (In the "inflight" workload the file 7_1_k
\* of bucket b is written by the upload of part 1 only.)
C31_PartsNotVisible ==
    [][(Served /\ load = "inflight" /\ req.m = "GET" /\ IsFileAt(fs, PartFile(1))) =>
        /\ RelKey(PartFile(1)) \notin resp'.contents
        /\ ~(resp'.status = "200" /\ opPath' = PartFile(1)
               /\ resp'.body = fs[PartFile(1)].data)]_vars


\* C32: last write wins.  When two PUTs of different bodies to the same key
\* that ran at the same time have both answered success, the object is the
\* whole of one body or the whole of the other, never a mixture.
C32_LastWriteWins ==
    \A p \in Procs : \A q \in Procs :
        (p # q /\ job[p].op = "put" /\ job[q].op = "put"
         /\ step[p] = "done" /\ step[q] = "done"
         /\ reply[p].status = "201" /\ reply[q].status = "201")
            => (IsFileAt(fs, ObjPath)
                /\ fs[ObjPath].data \in {job[p].body, job[q].body})


\* C33: the configured bucket root directory exists in every reachable state:
\* no request, a DELETE whose path names no bucket included, removes it.
C33_BucketRootExists == IsDirAt(fs, bucketPath)


\* d reads or lists (GET of an object, of a bucket or of the root, HEAD) or
\* begins a multipart upload
IsReadOnly(d) == d.m \in {"GET", "HEAD"} \/ IsInitiate(d)

\* C34: GET object, HEAD object, list-objects, list-buckets and
\* initiate-multipart-upload leave storage as it was, whether they succeed or
\* fail: no bucket, object or part file is created, modified or deleted.
C34_ReadOnlyKeepsStorage ==
    [][(pending /\ ~pending' /\ IsReadOnly(req)) => fs' = fs]_vars

\* an upload was begun with success on key k while a part file of k is there
C34_Witness ==
    /\ ~pending /\ IsInitiate(req) /\ req.path = <<"/", "b", "/", "k">>
    /\ resp.status = "200" /\ resp.uploadId # <<>>
    /\ IsFileAt(fs, PartFile(1))


\* d lists bucket b with a prefix parameter
IsPrefixList(d) ==
    d.m = "GET" /\ d.path = <<"/", "b">> /\ queryHas(url_Query(d.q), <<"prefix">>)

\* the directory the listing d names: the bucket's path joined with the
\* prefix, every occurrence of the delimiter in it replaced by '/' when a
\* delimiter is given
ListedDir(d) ==
    LET q      == url_Query(d.q)
        prefix == queryGet(q, <<"prefix">>)
    IN  filepath_Join(BPath, IF queryHas(q, <<"delimiter">>)
                             THEN replaceAll(prefix, queryGet(q, <<"delimiter">>), <<"/">>)
                             ELSE prefix)

\* C35: a list request on a bucket with a prefix parameter lists the bucket
\* path joined with the prefix in which every delimiter is replaced by '/';
\* with no delimiter parameter the prefix is used unchanged.
C35_ListsPrefixDirectory ==
    [][(Served /\ IsPrefixList(req) /\ IsDirAt(fs, ListedDir(req))) =>
        /\ resp'.status = "200"
        /\ opPath' = ListedDir(req)
        /\ resp'.contents =
               {RelKey(q) : q \in {c \in Children(fs, ListedDir(req)) : ~fs[c].dir}}]_vars


\* the names base and q have in common at their start
CommonLen(base, q) ==
    CHOOSE n \in 0..Len(base) :
        /\ n <= Len(q) /\ SubSeq(base, 1, n) = SubSeq(q, 1, n)
        /\ (n < Len(base) /\ n < Len(q)) => base[n + 1] # q[n + 1]

\* the path of q relative to the directory base: ".." for every name of base
\* that q does not share, then the names of q below what they share
RelativeTo(base, q) ==
    LET n == CommonLen(base, q)
    IN  Join([i \in 1..(Len(base) - n) |-> <<".", ".">>]
             \o SubSeq(q, n + 1, Len(q)), "/")

\* C36: when the prefix of a list request on an existing bucket resolves to a
\* single regular file, the listing has that file as its only object entry, keyed by the file's
\* path relative to the bucket's directory, and no common prefix.
C36_SingleFileListing ==
    [][(Served /\ IsPrefixList(req) /\ IsDirAt(fs, BPath)
        /\ IsFileAt(fs, ListedDir(req))) =>
        /\ resp'.status = "200"
        /\ resp'.contents = {RelativeTo(BPath, ListedDir(req))}
        /\ resp'.prefixes = {}]_vars


\* C37: authenticate leaves the request body intact for the handler that
\* follows: on every path, the re-hash of the body of a request whose scope
\* names another service than s3 included, what is left to read from the
\* body when authenticate returns is what the client sent.
C37_BodyIntact ==
    [][(aVerdict = "none" /\ aVerdict' # "none") => aReq'.Body = aReq.Body]_vars

\* a request with a body, signed for another service, was hashed from its
\* body and accepted
C37_Witness ==
    /\ aVerdict = "ok" /\ aTamper = "none"
    /\ rehashes(aReq, aCfg)
    /\ aReq.Body # <<>>


\* the region the request names in its credential scope
ScopeRegion == parseSignV4(HeaderGet(aReq.Header, "Authorization")).sv.Credential.region

\* C38: authenticate's verdict does not depend on the configured region: the
\* signing key comes from the region and service of the request's credential
\* scope, so the request gets the verdict it got under every configuration
\* that differs from the server's in the region only.
C38_VerdictIgnoresRegion ==
    aVerdict # "none" =>
        \A g \in Regions :
            authenticate(aReq, [aCfg EXCEPT !.s3region = g], aNow).ok = (aVerdict = "ok")

\* a request signed for another region than the configured one was accepted
C38_Witness ==
    /\ aVerdict = "ok" /\ aTamper = "none"
    /\ ScopeRegion # <<aCfg.s3region>>

-----------------------------------------------------------------------------
(* Specifications *)

Init == AuthIdle /\ FsStart /\ load \in Loads /\ ConcIdle /\ FnIdle

Next == Arrive \/ HandleRequest

Spec == Init /\ [][Next]_vars

AuthInit == AuthStart /\ FsStart /\ load = "objects" /\ ConcIdle /\ FnIdle

AuthNext == Verify \/ Tick \/ TamperBody \/ TamperHeader \/ TamperDate

SpecAuth == AuthInit /\ [][AuthNext]_vars

ConcInit ==
    AuthIdle /\ fs = ConcFs /\ NoTraffic /\ load = "objects" /\ ConcStart /\ FnIdle

ConcNext ==
    \E p \in Procs :
        \/ PutOpen(p) \/ PutWrite(p) \/ PutFinish(p)
        \/ GetRead(p)
        \/ CompleteOpen(p) \/ CompletePart(p) \/ CompleteFinish(p)
        \/ Initiate(p)

SpecConc == ConcInit /\ [][ConcNext]_vars

FnInit == AuthIdle /\ FsStart /\ load = "objects" /\ ConcIdle /\ FnStart

FnNext == ExtractSignedHeaders \/ CanonicalHeaders \/ EncodePath

SpecFn == FnInit /\ [][FnNext]_vars

=============================================================================
